---- MODULE Spec2Model ----
(***************************************************************************)
(* Model of plugins/modules/maas_machine_state.py: one invocation of       *)
(* run_module against one MAAS machine.  The module parameters and the     *)
(* remote machine are the initial state; every step of run_module that     *)
(* talks to the service is one action; every call is appended to `calls`   *)
(* with the answer the service gave.                                       *)
(*                                                                         *)
(* Conventions                                                             *)
(*  - Python None and '' are distinguished only where the code does        *)
(*    (`is None`): distro_series, user_data, ip_address use the string     *)
(*    None.  Where the code only tests truthiness (scripts, vlans,         *)
(*    boot_disk) the empty value stands for both.                          *)
(*  - boot_disk, disk names and serials are sequences of characters,       *)
(*    because the code matches them with the substring operator `in`.      *)
(*  - A CallError raised where the code has no handler ends the            *)
(*    invocation with outcome "exception" (no result is reported).         *)
(***************************************************************************)
EXTENDS Integers, Sequences, FiniteSets, TLC

----------------------------------------------------------------------------
(* Bounds of the explored input space *)

MaxStatusCode == 23
MaxVlans == 2
MaxDisks == 2
MaxIfaces == 2

----------------------------------------------------------------------------
(* NodeStatus codes, as status_map names them *)

NodeStatus_NEW == 0
NodeStatus_COMMISSIONING == 1
NodeStatus_READY == 4
NodeStatus_DEPLOYED == 6
NodeStatus_BROKEN == 8
NodeStatus_DEPLOYING == 9
NodeStatus_ALLOCATED == 10
NodeStatus_RELEASING == 12

StatusCodes == 0..MaxStatusCode

\* mutant: the chain stops one label short, FAILED_TESTING falls to UNKNOWN
status_map_short(maas_status_id) ==
  IF maas_status_id \in 0..21
  THEN <<"NEW", "COMMISSIONING", "FAILED_COMMISSIONING", "MISSING", "READY",
         "RESERVED", "DEPLOYED", "RETIRED", "BROKEN", "DEPLOYING", "ALLOCATED",
         "FAILED_DEPLOYMENT", "RELEASING", "FAILED_RELEASING", "DISK_ERASING",
         "FAILED_DISK_ERASING", "RESCUE_MODE", "ENTERING_RESCUE_MODE",
         "FAILED_ENTERING_RESCUE_MODE", "EXITING_RESCUE_MODE",
         "FAILED_EXITING_RESCUE_MODE", "TESTING">>[maas_status_id + 1]
  ELSE "UNKNOWN"

status_map(maas_status_id) ==
  CASE maas_status_id = 0 -> "NEW"
    [] maas_status_id = 1 -> "COMMISSIONING"
    [] maas_status_id = 2 -> "FAILED_COMMISSIONING"
    [] maas_status_id = 3 -> "MISSING"
    [] maas_status_id = 4 -> "READY"
    [] maas_status_id = 5 -> "RESERVED"
    [] maas_status_id = 6 -> "DEPLOYED"
    [] maas_status_id = 7 -> "RETIRED"
    [] maas_status_id = 8 -> "BROKEN"
    [] maas_status_id = 9 -> "DEPLOYING"
    [] maas_status_id = 10 -> "ALLOCATED"
    [] maas_status_id = 11 -> "FAILED_DEPLOYMENT"
    [] maas_status_id = 12 -> "RELEASING"
    [] maas_status_id = 13 -> "FAILED_RELEASING"
    [] maas_status_id = 14 -> "DISK_ERASING"
    [] maas_status_id = 15 -> "FAILED_DISK_ERASING"
    [] maas_status_id = 16 -> "RESCUE_MODE"
    [] maas_status_id = 17 -> "ENTERING_RESCUE_MODE"
    [] maas_status_id = 18 -> "FAILED_ENTERING_RESCUE_MODE"
    [] maas_status_id = 19 -> "EXITING_RESCUE_MODE"
    [] maas_status_id = 20 -> "FAILED_EXITING_RESCUE_MODE"
    [] maas_status_id = 21 -> "TESTING"
    [] maas_status_id = 22 -> "FAILED_TESTING"
    [] OTHER -> "UNKNOWN"

\* the copy of the translator in maas_machine_state_info
status_map_info(maas_status_id) ==
  CASE maas_status_id = 0 -> "NEW"
    [] maas_status_id = 1 -> "COMMISSIONING"
    [] maas_status_id = 2 -> "FAILED_COMMISSIONING"
    [] maas_status_id = 3 -> "MISSING"
    [] maas_status_id = 4 -> "READY"
    [] maas_status_id = 5 -> "RESERVED"
    [] maas_status_id = 6 -> "DEPLOYED"
    [] maas_status_id = 7 -> "RETIRED"
    [] maas_status_id = 8 -> "BROKEN"
    [] maas_status_id = 9 -> "DEPLOYING"
    [] maas_status_id = 10 -> "ALLOCATED"
    [] maas_status_id = 11 -> "FAILED_DEPLOYMENT"
    [] maas_status_id = 12 -> "RELEASING"
    [] maas_status_id = 13 -> "FAILED_RELEASING"
    [] maas_status_id = 14 -> "DISK_ERASING"
    [] maas_status_id = 15 -> "FAILED_DISK_ERASING"
    [] maas_status_id = 16 -> "RESCUE_MODE"
    [] maas_status_id = 17 -> "ENTERING_RESCUE_MODE"
    [] maas_status_id = 18 -> "FAILED_ENTERING_RESCUE_MODE"
    [] maas_status_id = 19 -> "EXITING_RESCUE_MODE"
    [] maas_status_id = 20 -> "FAILED_EXITING_RESCUE_MODE"
    [] maas_status_id = 21 -> "TESTING"
    [] maas_status_id = 22 -> "FAILED_TESTING"
    [] OTHER -> "UNKNOWN"

----------------------------------------------------------------------------
(* Values *)

None == "<None>"

sda == <<"s", "d", "a">>
sdb == <<"s", "d", "b">>
sdz == <<"s", "d", "z">>
serialA == <<"5", "0", "a">>
serialB == <<"5", "0", "b">>

\* sub occurs in s as a contiguous run (Python's `sub in s` on strings)
IsSubstring(sub, s) ==
  \E i \in 0..Len(s) :
    /\ i + Len(sub) <= Len(s)
    /\ \A j \in 1..Len(sub) : s[i + j] = sub[j]

SeqsUpTo(S, n) == UNION {[1..k -> S] : k \in 0..n}

the_system_id == "y3b3x3"
the_cidr == "10.0.0.0/24"

\* the subnet the service resolves the_cidr to, with the tag of its VLAN
maas_subnet == [cidr |-> the_cidr, id |-> "subnet-1", vid |-> 100]

\* module parameter `state`
States == {"commissioned", "ready", "deployed"}

\* module parameter `vlans`: elements as AnsibleModule hands them over
Vlan(vid, mode, ip, st) ==
  [vlan_id |-> vid, parent |-> "eth0", subnet_cidr |-> the_cidr,
   link_mode |-> mode, ip_address |-> ip, state |-> st]

VlanPool ==
  { Vlan(100, "dhcp", None, "present"),
    Vlan(200, "auto", None, "present"),
    Vlan(100, "dhcp", None, "absent"),
    Vlan(100, "static", "10.0.0.5", "present"),
    Vlan(100, "static", None, "present"),
    Vlan(100, "static", "", "present") }

\* machine.block_devices
Disk(id, type, name, serial) ==
  [id |-> id, type |-> type, name |-> name, serial |-> serial]

DiskPool ==
  { Disk("disk1", "PHYSICAL", sda, serialA),
    Disk("disk2", "PHYSICAL", sdb, serialB),
    Disk("disk3", "VIRTUAL", sda, serialA) }

\* machine.interfaces
Iface(name, type) == [name |-> name, type |-> type]

IfacePool ==
  { Iface("eth0", "PHYSICAL"), Iface("eth0.100", "VLAN"), Iface("bond0", "BOND"),
    Iface("br0", "BRIDGE") }

NoRepeat(s) == \A i, j \in 1..Len(s) : s[i] = s[j] => i = j

DefaultVlans == << Vlan(100, "dhcp", None, "present") >>
DefaultDisks == << Disk("disk1", "PHYSICAL", sda, serialA) >>
DefaultIfaces == << Iface("eth0", "PHYSICAL") >>

\* keys of the dict get_power_parameters() answers with; they are searched
\* for the text power_address
power_address_key == <<"p", "o", "w", "e", "r", "_", "a", "d", "d", "r", "e", "s", "s">>
power_user_key == <<"p", "o", "w", "e", "r", "_", "u", "s", "e", "r">>
old_power_address_key == <<"o", "l", "d", "_">> \o power_address_key

PowerParameter(key, value) == [key |-> key, value |-> value]

\* a machine as machines.list() hands it back, with its power parameters
Machine(id, name, address) ==
  [system_id |-> id, hostname |-> name,
   power_parameters |-> << PowerParameter(power_address_key, address),
                           PowerParameter(power_user_key, "admin") >>]

\* a machine that was moved to another address and keeps the former one
\* under a key of its own
MovedMachine(id, name, address, old) ==
  [system_id |-> id, hostname |-> name,
   power_parameters |-> << PowerParameter(power_address_key, address),
                           PowerParameter(old_power_address_key, old) >>]

MachinePool ==
  { Machine("y3b3x3", "server1", "10.1.1.1"),
    Machine("r7y6t5", "server1", "10.1.1.2"),
    Machine("retyet", "server2", "10.1.1.1"),
    MovedMachine("4y3h7n", "server4", "10.1.1.4", "10.1.1.3") }

----------------------------------------------------------------------------
(* State *)

VARIABLES
  \* module.params
  state, force, scripts, distro_series, user_data, boot_disk,
  storage_layout, vlans, check_mode,
  \* the machine in the service
  machine_status, block_devices, interfaces,
  \* locals of run_module
  pc, maas_status_id, maas_status, changed, vlan_index,
  \* what the invocation did and how it ended
  calls, outcome, result,
  \* maas_system_id_info: module.params, the machines of the service, and
  \* the local the lookup fills in
  hostname, power_address, machines, maas_system_id,
  \* maas_hostname: module.params (with hostname above), the machine and the
  \* domains of the service, and the two locals read off the machine
  domain, maas_machine, maas_domains, maas_machine_name, maas_machine_domain,
  \* clear_storage: the volume groups of the machine, the partitions of each
  \* of its block devices, and the local it returns
  volume_groups, partitions, clear_storage_result,
  \* get_machine and maas_machine_info: which of the two is invoked, the
  \* system_id parameter (hostname and machines as above) and the two locals
  \* the result is built from
  module_name, system_id, maas_machine_data, maas_machine_power

\* the lookup by hostname or power address is another module of the
\* collection: maas_machine_state is handed a system_id and reads none of this
lookup == <<hostname, power_address, machines, maas_system_id>>

\* likewise maas_hostname, which renames a machine and moves it to a domain
naming == <<domain, maas_machine, maas_domains, maas_machine_name,
            maas_machine_domain>>

\* a module that is not the one invoked: its variables stay as they are
naming_idle ==
  /\ domain = None
  /\ maas_machine = [hostname |-> "", domain |-> ""]
  /\ maas_domains = <<>>
  /\ maas_machine_name = ""
  /\ maas_machine_domain = ""

\* clear_storage is a helper that run_module never calls: the blank layout
\* took its place
storage == <<volume_groups, partitions, clear_storage_result>>

storage_idle ==
  /\ volume_groups = <<>>
  /\ partitions = <<>>
  /\ clear_storage_result = ""

\* the two modules that hand back the data of a machine
info == <<module_name, system_id, maas_machine_data, maas_machine_power>>

\* a local that no statement has assigned yet (reading it raises NameError),
\* and one that holds a value
Unbound == <<>>
Bound(value) == <<value>>

info_idle ==
  /\ module_name = ""
  /\ system_id = None
  /\ maas_machine_data = Unbound
  /\ maas_machine_power = Unbound

params == <<state, force, scripts, distro_series, user_data, boot_disk,
            storage_layout, vlans, check_mode, lookup, naming, storage, info>>
machine == <<machine_status, block_devices, interfaces>>
locals == <<maas_status_id, maas_status, changed, vlan_index>>
vars == <<params, machine, locals, pc, calls, outcome, result>>

----------------------------------------------------------------------------
(* Initial state: the parameters of the invocation and the machine as the  *)
(* service holds it.  AnsibleModule has already enforced the argument      *)
(* spec: `state` is one of its choices and state=deployed comes with       *)
(* storage_layout and vlans.  Parameters that a target never reads keep    *)
(* their default, and of the four groups of deployment inputs (vlans;      *)
(* boot disk, disks and layout; interfaces; distro and user data) one at   *)
(* a time ranges over its whole domain.                                    *)

InputGroups == {"vlans", "storage", "interfaces", "image"}

Init ==
  /\ state \in States
  /\ force \in BOOLEAN
  /\ check_mode \in BOOLEAN
  /\ machine_status \in StatusCodes
  /\ scripts \in (IF state = "commissioned"
                  THEN {<<>>, <<"clear_hardware_raid">>} ELSE {<<>>})
  /\ \E g \in InputGroups :
       /\ vlans \in (IF g = "vlans" THEN SeqsUpTo(VlanPool, MaxVlans)
                     ELSE IF state = "deployed" THEN {DefaultVlans} ELSE {<<>>})
       /\ boot_disk \in (IF g = "storage" /\ state = "deployed"
                         THEN {<<>>, sda, serialB, sdz} ELSE {<<>>})
       /\ block_devices \in (IF g = "storage" /\ state = "deployed"
                             THEN {s \in SeqsUpTo(DiskPool, MaxDisks) : NoRepeat(s)}
                             ELSE {DefaultDisks})
       /\ storage_layout \in (IF state # "deployed" THEN {""}
                              ELSE IF g = "storage" THEN {"blank", "flat"}
                              ELSE {"flat"})
       /\ interfaces \in (IF g = "interfaces" /\ state = "deployed"
                          THEN {s \in SeqsUpTo(IfacePool, MaxIfaces) : NoRepeat(s)}
                          ELSE {DefaultIfaces})
       /\ distro_series \in (IF g = "image" /\ state = "deployed"
                             THEN {None, "", "focal"} ELSE {None})
       /\ user_data \in (IF g = "image" /\ state = "deployed"
                         THEN {None, "", "I2Nsb3VkLWNvbmZpZw=="} ELSE {None})
  /\ hostname = None
  /\ power_address = None
  /\ machines = <<>>
  /\ maas_system_id = ""
  /\ naming_idle
  /\ storage_idle
  /\ info_idle
  /\ pc = "validate"
  /\ maas_status_id = -1
  /\ maas_status = ""
  /\ changed = FALSE
  /\ vlan_index = 1
  /\ calls = <<>>
  /\ outcome = "running"
  /\ result = [changed |-> FALSE, system_id |-> "", msg |-> "", msg_arg |-> "",
               original_state |-> ""]

----------------------------------------------------------------------------
(* Remote calls *)

Call(op, target, arg) ==
  [op |-> op, target |-> target, arg |-> arg, vlan |-> 0, ok |-> TRUE]

\* a call made on behalf of the k-th element of vlans
VlanCall(k, op, target, arg) ==
  [op |-> op, target |-> target, arg |-> arg, vlan |-> k, ok |-> TRUE]

Failed(c) == [c EXCEPT !.ok = FALSE]

\* time.sleep is logged with the calls; it is local and cannot fail
IsRemote(c) == c.op # "sleep"

MutatingOps ==
  {"commission", "release", "abort", "set_storage_layout", "set_as_boot_disk",
   "interface.delete", "interface.disconnect", "interfaces.create",
   "links.create", "deploy"}

IsMutating(c) == c.op \in MutatingOps

\* The calls of `plan` that are issued when the first n succeed: all of it,
\* or its first n and the failing one.
Attempt(plan, n) ==
  IF n >= Len(plan) THEN plan
  ELSE SubSeq(plan, 1, n) \o <<Failed(plan[n + 1])>>

\* how many of the calls of `plan` may succeed before one raises
FailurePoints(plan) ==
  {n \in 0..Len(plan) : n = Len(plan) \/ IsRemote(plan[n + 1])}

\* how the service answers: the status a machine in status st takes when
\* the call succeeds
StatusAfter(op, st) ==
  CASE op = "commission" -> NodeStatus_COMMISSIONING
    [] op = "deploy" -> NodeStatus_DEPLOYING
    [] op = "release" -> NodeStatus_RELEASING
    [] op = "abort" /\ st = NodeStatus_COMMISSIONING -> NodeStatus_NEW
    [] op = "abort" /\ st = NodeStatus_DEPLOYING -> NodeStatus_ALLOCATED
    [] OTHER -> st

RECURSIVE StatusAfterAll(_, _)
StatusAfterAll(issued, st) ==
  IF issued = <<>> THEN st
  ELSE StatusAfterAll(Tail(issued),
                      IF Head(issued).ok THEN StatusAfter(Head(issued).op, st) ELSE st)

----------------------------------------------------------------------------
(* Ends of an invocation *)

\* mutant: the failure reports the dict as success would have built it
fail_json_current(msg, arg) ==
  /\ outcome' = "fail_json"
  /\ result' = [changed |-> changed, system_id |-> the_system_id, msg |-> msg,
                msg_arg |-> arg, original_state |-> maas_status]
  /\ pc' = "done"

\* module.fail_json(msg=..., **result): `result` is still the seed dict
fail_json(msg, arg) ==
  /\ outcome' = "fail_json"
  /\ result' = [changed |-> FALSE, system_id |-> "", msg |-> msg, msg_arg |-> arg,
                original_state |-> ""]
  /\ pc' = "done"

\* an exception nothing catches
Raise ==
  /\ outcome' = "exception"
  /\ result' = result
  /\ pc' = "done"

Continue(next) ==
  /\ pc' = next
  /\ UNCHANGED <<outcome, result>>

----------------------------------------------------------------------------
(* Messages of fail_json; %s is carried in result.msg_arg *)

MsgStaticIp == "vlans.ip_address must be provided if vlans.link_mode: static"
MsgConnect == "Unable to connect - please check the URL!"
MsgNoMachine == "No machine matching system ID %s in MaaS or API key not authorised!"
MsgSetForce == "ERROR: machine is in %s state, set force: true to commission the node."
MsgCannotCommission == "ERROR: machine is in %s state - cannot be commissioned."
MsgCannotRelease == "ERROR: machine is in %s state - cannot be released."
MsgNoDisk == "No physical disk found with name or serial number matching %s"
MsgLayout == "Unable to apply the %s layout, please check the server in MAAS."
MsgCannotDeploy == "ERROR: machine is in %s state - cannot be deployed."
MsgDeployFailed == "Deploy failed - check the machine config, e.g. storage is mounted correctly."
MsgCallError == "<CallError>"

----------------------------------------------------------------------------
(* Entry: validation, connection, fetching the machine *)

\* `'static' in vlan['link_mode']` and `vlan['ip_address'] is None`
static_without_address(vlan) ==
  /\ vlan.link_mode = "static"
  /\ vlan.ip_address = None

Validate ==
  /\ pc = "validate"
  /\ IF vlans # <<>> /\ \E i \in 1..Len(vlans) : static_without_address(vlans[i])
     THEN fail_json(MsgStaticIp, "")
     ELSE Continue("connect")
  /\ UNCHANGED <<params, machine, locals, calls>>

Connect ==
  /\ pc = "connect"
  /\ \E ok \in BOOLEAN :
       LET c == Call("connect", "maas", "") IN
       IF ok
       THEN calls' = Append(calls, c) /\ Continue("get_machine")
       ELSE calls' = Append(calls, Failed(c)) /\ fail_json(MsgConnect, "")
  /\ UNCHANGED <<params, machine, locals>>

GetMachine ==
  /\ pc = "get_machine"
  /\ \E ok \in BOOLEAN :
       LET c == Call("machines.get", the_system_id, "") IN
       IF ok
       THEN /\ calls' = Append(calls, c)
            /\ maas_status_id' = machine_status
            /\ maas_status' = status_map(machine_status)
            /\ Continue(state)
       ELSE /\ calls' = Append(calls, Failed(c))
            /\ fail_json(MsgNoMachine, the_system_id)
            /\ UNCHANGED <<maas_status_id, maas_status>>
  /\ UNCHANGED <<params, machine, changed, vlan_index>>

----------------------------------------------------------------------------
(* state == 'commissioned' *)

Proceed(plan) == [msg |-> "", plan |-> plan]
Refuse(msg) == [msg |-> msg, plan |-> <<>>]

commission(scr) == Call("commission", the_system_id, IF scr # <<>> THEN "scripts" ELSE "")

\* the commissioned branch with the force test of READY, ALLOCATED and BROKEN
\* left out
commissioned_branch_unforced(sid, f, scr) ==
  IF sid \in {NodeStatus_NEW, NodeStatus_READY, NodeStatus_ALLOCATED, NodeStatus_BROKEN}
  THEN Proceed(<<commission(scr)>>)
  ELSE IF ~ f /\ sid \in {NodeStatus_DEPLOYED, NodeStatus_COMMISSIONING,
                          NodeStatus_DEPLOYING}
  THEN Refuse(MsgSetForce)
  ELSE IF sid = NodeStatus_DEPLOYED
  THEN Proceed(<<Call("release", the_system_id, "wait"), commission(<<>>)>>)
  ELSE IF sid \in {NodeStatus_COMMISSIONING, NodeStatus_DEPLOYING}
  THEN Proceed(<<Call("abort", the_system_id, ""), Call("sleep", "", "20"),
                 commission(<<>>)>>)
  ELSE Refuse(MsgCannotCommission)

\* the commissioned branch with the pause after abort left out
commissioned_branch_no_pause(sid, f, scr) ==
  IF sid = NodeStatus_NEW
  THEN Proceed(<<commission(scr)>>)
  ELSE IF ~ f /\ sid \in {NodeStatus_READY, NodeStatus_ALLOCATED, NodeStatus_BROKEN,
                          NodeStatus_DEPLOYED, NodeStatus_COMMISSIONING,
                          NodeStatus_DEPLOYING}
  THEN Refuse(MsgSetForce)
  ELSE IF sid \in {NodeStatus_READY, NodeStatus_ALLOCATED, NodeStatus_BROKEN}
  THEN Proceed(<<commission(scr)>>)
  ELSE IF sid = NodeStatus_DEPLOYED
  THEN Proceed(<<Call("release", the_system_id, "wait"), commission(<<>>)>>)
  ELSE IF sid \in {NodeStatus_COMMISSIONING, NodeStatus_DEPLOYING}
  THEN Proceed(<<Call("abort", the_system_id, ""), commission(<<>>)>>)
  ELSE Refuse(MsgCannotCommission)

\* the commissioned branch with RELEASING handled like DEPLOYED
commissioned_branch_releasing(sid, f, scr) ==
  IF sid = NodeStatus_NEW
  THEN Proceed(<<commission(scr)>>)
  ELSE IF ~ f /\ sid \in {NodeStatus_READY, NodeStatus_ALLOCATED, NodeStatus_BROKEN,
                          NodeStatus_DEPLOYED, NodeStatus_COMMISSIONING,
                          NodeStatus_DEPLOYING, NodeStatus_RELEASING}
  THEN Refuse(MsgSetForce)
  ELSE IF sid \in {NodeStatus_READY, NodeStatus_ALLOCATED, NodeStatus_BROKEN}
  THEN Proceed(<<commission(scr)>>)
  ELSE IF sid \in {NodeStatus_DEPLOYED, NodeStatus_RELEASING}
  THEN Proceed(<<Call("release", the_system_id, "wait"), commission(<<>>)>>)
  ELSE IF sid \in {NodeStatus_COMMISSIONING, NodeStatus_DEPLOYING}
  THEN Proceed(<<Call("abort", the_system_id, ""), Call("sleep", "", "20"),
                 commission(<<>>)>>)
  ELSE Refuse(MsgCannotCommission)

\* what the commissioned branch does in status sid: the calls it makes, or
\* the message it fails with
commissioned_branch(sid, f, scr) ==
  IF sid = NodeStatus_NEW
  THEN Proceed(<<commission(scr)>>)
  ELSE IF sid \in {NodeStatus_READY, NodeStatus_ALLOCATED, NodeStatus_BROKEN}
  THEN IF f THEN Proceed(<<commission(scr)>>) ELSE Refuse(MsgSetForce)
  ELSE IF sid = NodeStatus_DEPLOYED
  THEN IF f
       THEN Proceed(<<Call("release", the_system_id, "wait"), commission(<<>>)>>)
       ELSE Refuse(MsgSetForce)
  ELSE IF sid \in {NodeStatus_COMMISSIONING, NodeStatus_DEPLOYING}
  THEN IF f
       THEN Proceed(<<Call("abort", the_system_id, ""), Call("sleep", "", "20"),
                      commission(<<>>)>>)
       ELSE Refuse(MsgSetForce)
  ELSE Refuse(MsgCannotCommission)

Commissioned ==
  /\ pc = "commissioned"
  /\ LET b == commissioned_branch(maas_status_id, force, scripts) IN
     IF b.msg # ""
     THEN /\ fail_json(b.msg, maas_status)
          /\ UNCHANGED <<calls, changed, machine_status>>
     ELSE \E n \in FailurePoints(b.plan) :
            /\ calls' = calls \o Attempt(b.plan, n)
            /\ machine_status' = StatusAfterAll(Attempt(b.plan, n), machine_status)
            /\ IF n = Len(b.plan)
               THEN changed' = TRUE /\ Continue("exit")
               ELSE changed' = changed /\ Raise
  /\ UNCHANGED <<params, block_devices, interfaces, maas_status_id, maas_status,
                 vlan_index>>

----------------------------------------------------------------------------
(* state == 'ready' *)

\* mutant: READY is released as well
releasable_or_ready(sid) ==
  sid \in {NodeStatus_READY, NodeStatus_ALLOCATED, NodeStatus_DEPLOYING,
           NodeStatus_DEPLOYED}

\* the statuses the ready branch releases from
releasable(sid) ==
  sid \in {NodeStatus_ALLOCATED, NodeStatus_DEPLOYING, NodeStatus_DEPLOYED}

\* mutant: the no-op reports a change
changed_when_not_released_true(sid, was) == TRUE

\* `elif maas_status_id == NodeStatus.READY: changed = False`; no else
changed_when_not_released(sid, was) ==
  IF sid = NodeStatus_READY THEN FALSE ELSE was

Ready ==
  /\ pc = "ready"
  /\ IF releasable(maas_status_id)
     THEN \E ok \in BOOLEAN :
            LET c == Call("release", the_system_id, "") IN
            IF ok
            THEN /\ calls' = Append(calls, c)
                 /\ machine_status' = StatusAfter("release", machine_status)
                 /\ changed' = TRUE
                 /\ Continue("exit")
            ELSE /\ calls' = Append(calls, Failed(c))
                 /\ fail_json(MsgCannotRelease, maas_status)
                 /\ UNCHANGED <<machine_status, changed>>
     ELSE /\ changed' = changed_when_not_released(maas_status_id, changed)
          /\ Continue("exit")
          /\ UNCHANGED <<calls, machine_status>>
  /\ UNCHANGED <<params, block_devices, interfaces, maas_status_id, maas_status,
                 vlan_index>>

----------------------------------------------------------------------------
(* state == 'deployed' *)

\* mutant: the force test is left out
release_first_unforced(sid, f) ==
  sid \in {NodeStatus_DEPLOYED, NodeStatus_DEPLOYING}

\* `if maas_status_id in (DEPLOYED, DEPLOYING): if force:`
release_first(sid, f) ==
  /\ sid \in {NodeStatus_DEPLOYED, NodeStatus_DEPLOYING}
  /\ f

\* release(wait=True), sleep(30), refresh(), re-read of the status.  What the
\* machine has settled to after the pause is the service's business: any
\* status may be read back.
DeployedRelease ==
  /\ pc = "deployed"
  /\ IF release_first(maas_status_id, force)
     THEN LET plan == <<Call("release", the_system_id, "wait"), Call("sleep", "", "30"),
                        Call("refresh", the_system_id, "")>> IN
          \E n \in FailurePoints(plan) :
            /\ calls' = calls \o Attempt(plan, n)
            /\ IF n = 0
               THEN machine_status' = machine_status
               ELSE machine_status' \in StatusCodes
            /\ IF n = Len(plan)
               THEN /\ maas_status_id' = machine_status'
                    /\ changed' = TRUE
                    /\ Continue("deployed_check")
               ELSE /\ UNCHANGED <<maas_status_id, changed>>
                    /\ Raise
     ELSE /\ Continue("deployed_check")
          /\ UNCHANGED <<calls, machine_status, maas_status_id, changed>>
  /\ UNCHANGED <<params, block_devices, interfaces, maas_status, vlan_index>>

\* mutant: a machine still releasing is taken as deployable
deployable_or_releasing(sid) ==
  sid \in {NodeStatus_READY, NodeStatus_ALLOCATED, NodeStatus_RELEASING}

\* `if maas_status_id in (READY, ALLOCATED):`
deployable(sid) == sid \in {NodeStatus_READY, NodeStatus_ALLOCATED}

DeployedCheck ==
  /\ pc = "deployed_check"
  /\ IF deployable(maas_status_id)
     THEN Continue("clear_storage")
     ELSE fail_json(MsgCannotDeploy, maas_status)
  /\ UNCHANGED <<params, machine, locals, calls>>

\* set_storage_layout(system_id, url, apikey, layout): the POST, answered
\* with 200 or not
set_storage_layout(layout) == Call("set_storage_layout", the_system_id, layout)

\* `if 'success' in clear_storage_result: changed = True`
changed_after_blank(was, ok) == was \/ ok

ClearStorage ==
  /\ pc = "clear_storage"
  /\ \E ok \in BOOLEAN :
       /\ calls' = Append(calls, IF ok THEN set_storage_layout("blank")
                                 ELSE Failed(set_storage_layout("blank")))
       /\ changed' = changed_after_blank(changed, ok)
  /\ Continue("boot_disk")
  /\ UNCHANGED <<params, machine, maas_status_id, maas_status, vlan_index>>

\* the loop of set_boot_disk over the block devices not yet visited; acc is
\* the calls issued so far and set_boot_disk_result
RECURSIVE set_boot_disk_loop(_, _, _)
set_boot_disk_loop(devices, selector, acc) ==
  IF devices = <<>> THEN acc
  ELSE LET disk == Head(devices)
           hit == [plan |-> Append(acc.plan, Call("set_as_boot_disk", disk.id, "")),
                   result |-> "pass"]
       IN set_boot_disk_loop(Tail(devices), selector,
            IF disk.type = "PHYSICAL"
            THEN IF IsSubstring(disk.name, selector) THEN hit
                 ELSE IF IsSubstring(disk.serial, selector) THEN hit
                 ELSE [plan |-> acc.plan, result |-> "fail"]
            ELSE acc)

set_boot_disk(devices, selector) ==
  set_boot_disk_loop(devices, selector, [plan |-> <<>>, result |-> ""])

BootDisk ==
  /\ pc = "boot_disk"
  /\ IF boot_disk # <<>>
     THEN LET r == set_boot_disk(block_devices, boot_disk) IN
          \E n \in FailurePoints(r.plan) :
            /\ calls' = calls \o Attempt(r.plan, n)
            /\ IF n < Len(r.plan) THEN Raise
               ELSE IF r.result = "fail" THEN fail_json(MsgNoDisk, "boot_disk")
               ELSE Continue("storage_layout")
     ELSE /\ Continue("storage_layout")
          /\ UNCHANGED calls
  /\ UNCHANGED <<params, machine, locals>>

StorageLayout ==
  /\ pc = "storage_layout"
  /\ IF storage_layout # ""
     THEN \E ok \in BOOLEAN :
            IF ok
            THEN /\ calls' = Append(calls, set_storage_layout(storage_layout))
                 /\ changed' = TRUE
                 /\ Continue("delete_interfaces")
            ELSE /\ calls' = Append(calls, Failed(set_storage_layout(storage_layout)))
                 /\ changed' = changed
                 /\ fail_json(MsgLayout, storage_layout)
     ELSE /\ Continue("delete_interfaces")
          /\ UNCHANGED <<calls, changed>>
  /\ UNCHANGED <<params, machine, maas_status_id, maas_status, vlan_index>>

\* mutant: every interface is deleted, the physical ones included
RECURSIVE delete_interfaces_all(_)
delete_interfaces_all(ifaces) ==
  IF ifaces = <<>> THEN <<>>
  ELSE <<Call("interface.delete", Head(ifaces).name, "")>>
       \o delete_interfaces_all(Tail(ifaces))

\* the loop of delete_interfaces: the calls it makes, in order
RECURSIVE delete_interfaces(_)
delete_interfaces(ifaces) ==
  IF ifaces = <<>> THEN <<>>
  ELSE LET i == Head(ifaces) IN
       (IF i.type \in {"VLAN", "BOND", "BRIDGE"}
        THEN <<Call("interface.delete", i.name, "")>> ELSE <<>>)
       \o (IF i.type = "PHYSICAL"
           THEN <<Call("interface.disconnect", i.name, "")>> ELSE <<>>)
       \o delete_interfaces(Tail(ifaces))

\* the interfaces the machine is left with once `issued` has been answered
InterfacesAfter(ifaces, issued) ==
  SelectSeq(ifaces, LAMBDA i :
    ~ \E k \in 1..Len(issued) :
        /\ issued[k].op = "interface.delete"
        /\ issued[k].ok
        /\ issued[k].target = i.name)

DeleteInterfaces ==
  /\ pc = "delete_interfaces"
  /\ LET plan == delete_interfaces(interfaces) IN
     \E n \in FailurePoints(plan) :
       /\ calls' = calls \o Attempt(plan, n)
       /\ interfaces' = InterfacesAfter(interfaces, Attempt(plan, n))
       /\ IF n = Len(plan) THEN Continue("vlans") ELSE Raise
  /\ UNCHANGED <<params, machine_status, block_devices, locals>>

\* links.create(LinkMode.STATIC, subnet, ip_address=ip_address): the one call
\* that carries an address
StaticLink(k, ip) ==
  [op |-> "links.create", target |-> "vlan_interface", arg |-> "STATIC",
   vlan |-> k, ok |-> TRUE, ip_address |-> ip]

\* mutant: whatever link_mode says, the new interface gets a DHCP link
mode_links_dhcp(k, vlan) ==
  <<VlanCall(k, "links.create", "vlan_interface", "DHCP")>>

\* the link_mode branches of create_vlan_interface: three independent ifs
mode_links(k, vlan) ==
  (IF vlan.link_mode = "dhcp"
   THEN <<VlanCall(k, "links.create", "vlan_interface", "DHCP")>> ELSE <<>>)
  \o (IF vlan.link_mode = "auto"
      THEN <<VlanCall(k, "links.create", "vlan_interface", "AUTO")>> ELSE <<>>)
  \o (IF vlan.link_mode = "static"
      THEN <<StaticLink(k, vlan.ip_address)>> ELSE <<>>)

\* `if vlan_id == maas_subnet.vlan.vid:`
tag_matches(vlan, subnet) == vlan.vlan_id = subnet.vid

\* mutant: the VLAN interface is created before the parent's baseline links
create_vlan_interface_create_first(ifaces, vlan, k) ==
  LET resolve == <<VlanCall(k, "subnets.get", vlan.subnet_cidr, "")>>
      found == \E i \in 1..Len(ifaces) : ifaces[i].name = vlan.parent
  IN IF tag_matches(vlan, maas_subnet)
     THEN IF found
          THEN [raises |-> FALSE,
                plan |-> resolve
                  \o <<VlanCall(k, "interfaces.create", vlan.parent, "VLAN"),
                       VlanCall(k, "links.create", vlan.parent, "LINK_UP subnet"),
                       VlanCall(k, "links.create", vlan.parent, "LINK_UP")>>
                  \o mode_links(k, vlan)]
          ELSE [raises |-> TRUE, plan |-> resolve]
     ELSE [raises |-> FALSE, plan |-> resolve]

\* create_vlan_interface for the k-th element of vlans on a machine with
\* interfaces ifaces: the calls it makes, and whether the lookup of the
\* parent by name raises after the subnet was resolved
create_vlan_interface(ifaces, vlan, k) ==
  LET resolve == <<VlanCall(k, "subnets.get", vlan.subnet_cidr, "")>>
      found == \E i \in 1..Len(ifaces) : ifaces[i].name = vlan.parent
  IN IF tag_matches(vlan, maas_subnet)
     THEN IF found
          THEN [raises |-> FALSE,
                plan |-> resolve
                  \o <<VlanCall(k, "links.create", vlan.parent, "LINK_UP subnet"),
                       VlanCall(k, "links.create", vlan.parent, "LINK_UP"),
                       VlanCall(k, "interfaces.create", vlan.parent, "VLAN")>>
                  \o mode_links(k, vlan)]
          ELSE [raises |-> TRUE, plan |-> resolve]
     ELSE [raises |-> FALSE, plan |-> resolve]

\* mutant: the state of the declaration is not looked at
is_present_always(vlan) == TRUE

\* `if 'present' in vlan_state:`
is_present(vlan) == vlan.state = "present"

\* one round of `for vlan in vlans:`
Vlans ==
  /\ pc = "vlans"
  /\ IF vlans = <<>> \/ vlan_index > Len(vlans)
     THEN /\ Continue("deploy")
          /\ UNCHANGED <<calls, interfaces, vlan_index>>
     ELSE IF is_present(vlans[vlan_index])
     THEN LET r == create_vlan_interface(interfaces, vlans[vlan_index], vlan_index) IN
          \E n \in FailurePoints(r.plan) :
            LET issued == Attempt(r.plan, n) IN
            /\ calls' = calls \o issued
            /\ interfaces' =
                 IF \E j \in 1..Len(issued) : issued[j].op = "interfaces.create" /\ issued[j].ok
                 THEN Append(interfaces, Iface("eth0.100", "VLAN"))
                 ELSE interfaces
            /\ IF n < Len(r.plan) \/ r.raises
               THEN Raise /\ vlan_index' = vlan_index
               ELSE Continue("vlans") /\ vlan_index' = vlan_index + 1
     ELSE /\ Continue("vlans")
          /\ vlan_index' = vlan_index + 1
          /\ UNCHANGED <<calls, interfaces>>
  /\ UNCHANGED <<params, machine_status, block_devices, maas_status_id, maas_status,
                 changed>>

Truthy(s) == s # None /\ s # ""

\* the four branches of the deploy call: what is passed, and the message
\* its except clause fails with
deploy_branch(distro, data) ==
  IF Truthy(data) /\ Truthy(distro)
  THEN [arg |-> "user_data distro_series", msg |-> MsgCallError]
  ELSE IF Truthy(distro) /\ data = None
  THEN [arg |-> "distro_series", msg |-> MsgCallError]
  ELSE IF Truthy(data) /\ distro = None
  THEN [arg |-> "user_data", msg |-> MsgCallError]
  ELSE [arg |-> "", msg |-> MsgDeployFailed]

\* mutant: the deploy calls have no except clause
Deploy_unhandled ==
  /\ pc = "deploy"
  /\ LET b == deploy_branch(distro_series, user_data)
         c == Call("deploy", the_system_id, b.arg)
     IN \E ok \in BOOLEAN :
          IF ok
          THEN /\ calls' = Append(calls, c)
               /\ machine_status' = StatusAfter("deploy", machine_status)
               /\ changed' = TRUE
               /\ Continue("exit")
          ELSE /\ calls' = Append(calls, Failed(c))
               /\ Raise
               /\ UNCHANGED <<machine_status, changed>>
  /\ UNCHANGED <<params, block_devices, interfaces, maas_status_id, maas_status,
                 vlan_index>>

Deploy ==
  /\ pc = "deploy"
  /\ LET b == deploy_branch(distro_series, user_data)
         c == Call("deploy", the_system_id, b.arg)
     IN \E ok \in BOOLEAN :
          IF ok
          THEN /\ calls' = Append(calls, c)
               /\ machine_status' = StatusAfter("deploy", machine_status)
               /\ changed' = TRUE
               /\ Continue("exit")
          ELSE /\ calls' = Append(calls, Failed(c))
               /\ fail_json(b.msg, "")
               /\ UNCHANGED <<machine_status, changed>>
  /\ UNCHANGED <<params, block_devices, interfaces, maas_status_id, maas_status,
                 vlan_index>>

----------------------------------------------------------------------------
(* Exit *)

\* mutant: the seed dict is handed over, as if it were never rebuilt
exit_result_seed(check, chg, label) ==
  [changed |-> FALSE, system_id |-> "", msg |-> "", msg_arg |-> "",
   original_state |-> ""]

\* the dict handed to exit_json
exit_result(check, chg, label) ==
  IF check
  THEN [changed |-> FALSE, system_id |-> "", msg |-> "", msg_arg |-> "",
        original_state |-> ""]
  ELSE [changed |-> chg, system_id |-> the_system_id, msg |-> "", msg_arg |-> "",
        original_state |-> label]

\* mutant: exit_json hands nothing back and the process stays
Exit_never ==
  /\ pc = "exit"
  /\ UNCHANGED vars

Exit ==
  /\ pc = "exit"
  /\ outcome' = "exit_json"
  /\ result' = exit_result(check_mode, changed, maas_status)
  /\ pc' = "done"
  /\ UNCHANGED <<params, machine, locals, calls>>

----------------------------------------------------------------------------

Next ==
  \/ Validate
  \/ Connect
  \/ GetMachine
  \/ Commissioned
  \/ Ready
  \/ DeployedRelease
  \/ DeployedCheck
  \/ ClearStorage
  \/ BootDisk
  \/ StorageLayout
  \/ DeleteInterfaces
  \/ Vlans
  \/ Deploy
  \/ Exit

Spec == Init /\ [][Next]_vars

\* The interpreter runs the next statement of run_module as long as there
\* is one, and every remote call returns, with an answer or with an error:
\* a step that can be taken is taken.
SpecFair == Init /\ [][Next]_vars /\ WF_vars(Next)

----------------------------------------------------------------------------
(* The task run again: main() is entered anew with the same parameters    *)
(* against the machine as the previous invocation left it.  The end of    *)
(* the previous invocation is kept in the call log, with the status label *)
(* it started from and the changed flag it reported.                      *)

MaxInvocations == 2

InvocationEnd ==
  [op |-> "end", target |-> maas_status,
   arg |-> IF result.changed THEN "changed" ELSE "unchanged",
   vlan |-> 0, ok |-> outcome = "exit_json"]

Invocations == Cardinality({i \in 1..Len(calls) : calls[i].op = "end"}) + 1

Reinvoke ==
  /\ pc = "done"
  /\ Invocations < MaxInvocations
  /\ calls' = Append(calls, InvocationEnd)
  /\ pc' = "validate"
  /\ maas_status_id' = -1
  /\ maas_status' = ""
  /\ changed' = FALSE
  /\ vlan_index' = 1
  /\ outcome' = "running"
  /\ result' = [changed |-> FALSE, system_id |-> "", msg |-> "", msg_arg |-> "",
                original_state |-> ""]
  /\ UNCHANGED <<params, machine>>

\* the status fetch alone, for any integer the service may hand back as
\* machine.status.value: codes below 0 and above the labelled range included
TranslateSpan == 8

TranslateCodes == (0 - TranslateSpan)..(MaxStatusCode + TranslateSpan)

InitTranslate ==
  /\ state \in States
  /\ force \in BOOLEAN
  /\ check_mode \in BOOLEAN
  /\ machine_status \in TranslateCodes
  /\ scripts = <<>>
  /\ vlans = (IF state = "deployed" THEN DefaultVlans ELSE <<>>)
  /\ boot_disk = <<>>
  /\ block_devices = DefaultDisks
  /\ storage_layout = (IF state = "deployed" THEN "flat" ELSE "")
  /\ interfaces = DefaultIfaces
  /\ distro_series = None
  /\ user_data = None
  /\ hostname = None
  /\ power_address = None
  /\ machines = <<>>
  /\ maas_system_id = ""
  /\ naming_idle
  /\ storage_idle
  /\ info_idle
  /\ pc = "validate"
  /\ maas_status_id = -1
  /\ maas_status = ""
  /\ changed = FALSE
  /\ vlan_index = 1
  /\ calls = <<>>
  /\ outcome = "running"
  /\ result = [changed |-> FALSE, system_id |-> "", msg |-> "", msg_arg |-> "",
               original_state |-> ""]

NextTranslate ==
  \/ Validate
  \/ Connect
  \/ GetMachine

SpecTranslate == InitTranslate /\ [][NextTranslate]_vars

\* the invocations with state: ready
InitReady == Init /\ state = "ready"

NextReady ==
  \/ Validate
  \/ Connect
  \/ GetMachine
  \/ Ready
  \/ Exit
  \/ Reinvoke

SpecReady == InitReady /\ [][NextReady]_vars

----------------------------------------------------------------------------
(* maas_system_id_info: run_module looks a machine up by hostname or by   *)
(* power address and hands back its system_id.                            *)

MaxMachines == 2

MsgOneRequired == "One of power_address or hostname is required."
MsgLookupConnect == "Unable to connect - please check the URL and API key!"
MsgNoHostname == "No machine matching hostname %s in MaaS or API key not authorised!"

\* what maas_machine_state owns; the lookup touches none of it
engine == <<state, force, scripts, distro_series, user_data, boot_disk,
            storage_layout, vlans, machine, locals>>

InitLookup ==
  /\ state = "ready"
  /\ force = FALSE
  /\ scripts = <<>>
  /\ distro_series = None
  /\ user_data = None
  /\ boot_disk = <<>>
  /\ storage_layout = ""
  /\ vlans = <<>>
  /\ machine_status = NodeStatus_READY
  /\ block_devices = DefaultDisks
  /\ interfaces = DefaultIfaces
  /\ maas_status_id = -1
  /\ maas_status = ""
  /\ changed = FALSE
  /\ vlan_index = 1
  /\ check_mode \in BOOLEAN
  /\ hostname \in {None, "", "server1", "server3"}
  /\ power_address \in {None, "", "10.1.1.1", "10.1.1.3", "10.9.9.9"}
  /\ machines \in {m \in SeqsUpTo(MachinePool, MaxMachines) : NoRepeat(m)}
  /\ maas_system_id = ""
  /\ naming_idle
  /\ storage_idle
  /\ info_idle
  /\ pc = "lookup_connect"
  /\ calls = <<>>
  /\ outcome = "running"
  /\ result = [changed |-> FALSE]

\* module.fail_json(msg=..., **result) with result = {"changed": False}
lookup_fail_json(msg, arg) ==
  /\ outcome' = "fail_json"
  /\ result' = [changed |-> FALSE, msg |-> msg, msg_arg |-> arg]
  /\ pc' = "done"

\* `if hostname or power_address:` and the connect inside it
LookupConnect ==
  /\ pc = "lookup_connect"
  /\ IF Truthy(hostname) \/ Truthy(power_address)
     THEN \E ok \in BOOLEAN :
            LET c == Call("connect", "maas", "") IN
            IF ok
            THEN calls' = Append(calls, c) /\ Continue("lookup")
            ELSE calls' = Append(calls, Failed(c)) /\ lookup_fail_json(MsgLookupConnect, "")
     ELSE /\ lookup_fail_json(MsgOneRequired, "")
          /\ UNCHANGED calls
  /\ UNCHANGED <<engine, check_mode, lookup, naming, storage, info>>

\* mutant: the hostname filter is lost, every machine is handed back
with_hostname_all(ms, name) == ms

\* machines.list(hostnames=hostname): the machines the service finds under
\* that hostname, in the order of its list
with_hostname(ms, name) == SelectSeq(ms, LAMBDA m : m.hostname = name)

\* `if hostname:` -- the first machine of the answer; IndexError on an empty
\* answer is caught together with CallError
LookupHostname ==
  /\ pc = "lookup"
  /\ Truthy(hostname)
  /\ \E ok \in BOOLEAN :
       LET c == Call("machines.list", hostname, "hostnames")
           found == with_hostname(machines, hostname)
       IN IF ok
          THEN /\ calls' = Append(calls, c)
               /\ IF found = <<>>
                  THEN /\ lookup_fail_json(MsgNoHostname, hostname)
                       /\ UNCHANGED maas_system_id
                  ELSE /\ maas_system_id' = found[1].system_id
                       /\ Continue("lookup_exit")
          ELSE /\ calls' = Append(calls, Failed(c))
               /\ lookup_fail_json(MsgNoHostname, hostname)
               /\ UNCHANGED maas_system_id
  /\ UNCHANGED <<engine, check_mode, hostname, power_address, machines, naming,
                 storage, info>>

\* the loop over all machines: every machine whose power_address equals the
\* parameter overwrites maas_system_id
\* `if "power_address" in key:` and the comparison of its value, over the
\* items of one machine's power parameters
RECURSIVE power_match(_, _)
power_match(parameters, address) ==
  /\ parameters # <<>>
  /\ \/ /\ IsSubstring(power_address_key, Head(parameters).key)
        /\ Head(parameters).value = address
     \/ power_match(Tail(parameters), address)

RECURSIVE with_power_address(_, _, _)
with_power_address(ms, address, id) ==
  IF ms = <<>> THEN id
  ELSE with_power_address(Tail(ms), address,
         IF power_match(Head(ms).power_parameters, address)
         THEN Head(ms).system_id ELSE id)

\* the calls of the power_address branch: one list, then the power
\* parameters of each machine
RECURSIVE power_parameters(_)
power_parameters(ms) ==
  IF ms = <<>> THEN <<>>
  ELSE <<Call("get_power_parameters", Head(ms).system_id, "")>>
       \o power_parameters(Tail(ms))

\* `elif power_address:` -- no try around it
LookupPowerAddress ==
  /\ pc = "lookup"
  /\ ~ Truthy(hostname)
  /\ Truthy(power_address)
  /\ LET plan == <<Call("machines.list", "", "")>> \o power_parameters(machines) IN
     \E n \in FailurePoints(plan) :
       /\ calls' = calls \o Attempt(plan, n)
       /\ IF n = Len(plan)
          THEN /\ maas_system_id' = with_power_address(machines, power_address,
                                                        maas_system_id)
               /\ Continue("lookup_exit")
          ELSE /\ UNCHANGED maas_system_id
               /\ Raise
  /\ UNCHANGED <<engine, check_mode, hostname, power_address, machines, naming,
                 storage, info>>

\* the dict handed to exit_json
lookup_result(check, id) ==
  IF check THEN [changed |-> FALSE] ELSE [changed |-> FALSE, system_id |-> id]

LookupExit ==
  /\ pc = "lookup_exit"
  /\ outcome' = "exit_json"
  /\ result' = lookup_result(check_mode, maas_system_id)
  /\ pc' = "done"
  /\ UNCHANGED <<engine, check_mode, lookup, naming, storage, info, calls>>

NextLookup ==
  \/ LookupConnect
  \/ LookupHostname
  \/ LookupPowerAddress
  \/ LookupExit

SpecLookup == InitLookup /\ [][NextLookup]_vars

----------------------------------------------------------------------------
(* maas_hostname: run_module sets the hostname and the domain of the      *)
(* machine with the given system_id, saving each of the two when it       *)
(* differs from what the machine has.                                     *)

MaxDomains == 2

DomainPool == {"maas", "lab"}
HostnamePool == {"server1", "server2"}

MsgNoSystemId == "No machine matching system ID %s in MaaS!"
MsgNoDomain == "No domain matching name %s in MaaS!"

\* everything maas_hostname neither reads nor writes
unnamed == <<state, force, scripts, distro_series, user_data, boot_disk,
             storage_layout, vlans, machine, maas_status_id, maas_status,
             vlan_index, check_mode, lookup, storage, info>>

\* the seed dict of maas_hostname
naming_seed ==
  [changed |-> FALSE, original_hostname |-> "", original_domain |-> "",
   hostname |-> "", domain |-> ""]

InitHostname ==
  /\ state = "ready"
  /\ force = FALSE
  /\ scripts = <<>>
  /\ distro_series = None
  /\ user_data = None
  /\ boot_disk = <<>>
  /\ storage_layout = ""
  /\ vlans = <<>>
  /\ machine_status = NodeStatus_READY
  /\ block_devices = DefaultDisks
  /\ interfaces = DefaultIfaces
  /\ maas_status_id = -1
  /\ maas_status = ""
  /\ changed = FALSE
  /\ vlan_index = 1
  /\ check_mode \in BOOLEAN
  /\ hostname \in HostnamePool
  /\ power_address = None
  /\ machines = <<>>
  /\ maas_system_id = ""
  /\ domain \in DomainPool \cup {"corp"}
  /\ maas_domains \in {d \in SeqsUpTo(DomainPool, MaxDomains) :
                         d # <<>> /\ NoRepeat(d)}
  /\ maas_machine \in [hostname : HostnamePool,
                       domain : {maas_domains[i] : i \in 1..Len(maas_domains)}]
  /\ maas_machine_name = ""
  /\ maas_machine_domain = ""
  /\ storage_idle
  /\ info_idle
  /\ pc = "naming_connect"
  /\ calls = <<>>
  /\ outcome = "running"
  /\ result = naming_seed

\* module.fail_json(msg=..., **result): `result` is the seed dict
naming_fail_json(msg, arg) ==
  /\ outcome' = "fail_json"
  /\ result' = [changed |-> FALSE, original_hostname |-> "",
                original_domain |-> "", hostname |-> "", domain |-> "",
                msg |-> msg, msg_arg |-> arg]
  /\ pc' = "done"

\* connect(maas_url, apikey=maas_apikey), outside any try
HostnameConnect ==
  /\ pc = "naming_connect"
  /\ \E ok \in BOOLEAN :
       LET c == Call("connect", "maas", "") IN
       IF ok
       THEN calls' = Append(calls, c) /\ Continue("naming_get")
       ELSE calls' = Append(calls, Failed(c)) /\ Raise
  /\ UNCHANGED <<unnamed, changed, naming>>

\* maas.machines.get(system_id=system_id): only IndexError is caught; then
\* the hostname and the domain name are read off the machine
HostnameGetMachine ==
  /\ pc = "naming_get"
  /\ \E answer \in {"machine", "IndexError", "CallError"} :
       LET c == Call("machines.get", the_system_id, "") IN
       CASE answer = "machine" ->
              /\ calls' = Append(calls, c)
              /\ maas_machine_name' = maas_machine.hostname
              /\ maas_machine_domain' = maas_machine.domain
              /\ Continue("naming_domain")
         [] answer = "IndexError" ->
              /\ calls' = Append(calls, Failed(c))
              /\ naming_fail_json(MsgNoSystemId, the_system_id)
              /\ UNCHANGED <<maas_machine_name, maas_machine_domain>>
         [] answer = "CallError" ->
              /\ calls' = Append(calls, Failed(c))
              /\ Raise
              /\ UNCHANGED <<maas_machine_name, maas_machine_domain>>
  /\ UNCHANGED <<unnamed, changed, domain, maas_machine, maas_domains>>

\* mutant: an unknown domain is saved like a known one
domain_found_always(domains, name) == TRUE

\* the loop over maas.domains.list() looking for the domain by name
domain_found(domains, name) ==
  \E i \in 1..Len(domains) : domains[i] = name

\* mutant: the domain is saved whether it differs or not
domain_differs_always(name, current) == TRUE

\* `if domain != maas_machine_domain:`
domain_differs(name, current) == name # current

\* the domain branch: list the domains, refuse an unknown one, else set
\* maas_machine.domain and save
HostnameDomain ==
  /\ pc = "naming_domain"
  /\ IF domain_differs(domain, maas_machine_domain)
     THEN LET list == Call("domains.list", "maas", "")
              save == Call("save", the_system_id, "domain")
          IN \/ /\ calls' = Append(calls, Failed(list))
                /\ Raise
                /\ UNCHANGED <<maas_machine, changed>>
             \/ /\ ~ domain_found(maas_domains, domain)
                /\ calls' = Append(calls, list)
                /\ naming_fail_json(MsgNoDomain, domain)
                /\ UNCHANGED <<maas_machine, changed>>
             \/ /\ domain_found(maas_domains, domain)
                /\ \E ok \in BOOLEAN :
                     IF ok
                     THEN /\ calls' = calls \o <<list, save>>
                          /\ maas_machine' = [maas_machine EXCEPT !.domain = domain]
                          /\ changed' = TRUE
                          /\ Continue("naming_hostname")
                     ELSE /\ calls' = calls \o <<list, Failed(save)>>
                          /\ Raise
                          /\ UNCHANGED <<maas_machine, changed>>
     ELSE /\ Continue("naming_hostname")
          /\ UNCHANGED <<calls, maas_machine, changed>>
  /\ UNCHANGED <<unnamed, domain, maas_domains, maas_machine_name,
                 maas_machine_domain>>

\* mutant: the hostname is saved whether it differs or not
hostname_differs_always(name, current) == TRUE

\* `if hostname != maas_machine_name:`
hostname_differs(name, current) == name # current

\* the hostname branch: set maas_machine.hostname and save
HostnameSave ==
  /\ pc = "naming_hostname"
  /\ IF hostname_differs(hostname, maas_machine_name)
     THEN LET save == Call("save", the_system_id, "hostname") IN
          \E ok \in BOOLEAN :
            IF ok
            THEN /\ calls' = Append(calls, save)
                 /\ maas_machine' = [maas_machine EXCEPT !.hostname = hostname]
                 /\ changed' = TRUE
                 /\ Continue("naming_exit")
            ELSE /\ calls' = Append(calls, Failed(save))
                 /\ Raise
                 /\ UNCHANGED <<maas_machine, changed>>
     ELSE /\ Continue("naming_exit")
          /\ UNCHANGED <<calls, maas_machine, changed>>
  /\ UNCHANGED <<unnamed, domain, maas_domains, maas_machine_name,
                 maas_machine_domain>>

\* mutant: check mode reports like any other run
naming_result_plain(check, chg, name0, domain0, name, dom) ==
  [changed |-> chg, original_hostname |-> name0, original_domain |-> domain0,
   hostname |-> name, domain |-> dom]

\* the dict handed to exit_json: the seed in check mode
naming_result(check, chg, name0, domain0, name, dom) ==
  IF check THEN naming_seed
  ELSE [changed |-> chg, original_hostname |-> name0,
        original_domain |-> domain0, hostname |-> name, domain |-> dom]

HostnameExit ==
  /\ pc = "naming_exit"
  /\ outcome' = "exit_json"
  /\ result' = naming_result(check_mode, changed, maas_machine_name,
                             maas_machine_domain, hostname, domain)
  /\ pc' = "done"
  /\ UNCHANGED <<unnamed, changed, naming, calls>>

\* the task run again with the same parameters against the machine as the
\* previous invocation left it
HostnameEnd ==
  [op |-> "end", target |-> the_system_id,
   arg |-> IF result.changed THEN "changed" ELSE "unchanged",
   vlan |-> 0, ok |-> outcome = "exit_json"]

HostnameReinvoke ==
  /\ pc = "done"
  /\ Invocations < MaxInvocations
  /\ calls' = Append(calls, HostnameEnd)
  /\ pc' = "naming_connect"
  /\ changed' = FALSE
  /\ maas_machine_name' = ""
  /\ maas_machine_domain' = ""
  /\ outcome' = "running"
  /\ result' = naming_seed
  /\ UNCHANGED <<unnamed, domain, maas_machine, maas_domains>>

NextHostname ==
  \/ HostnameConnect
  \/ HostnameGetMachine
  \/ HostnameDomain
  \/ HostnameSave
  \/ HostnameExit
  \/ HostnameReinvoke

SpecHostname == InitHostname /\ [][NextHostname]_vars

----------------------------------------------------------------------------
(* clear_storage(machine): delete the volume groups, the virtual block    *)
(* devices and the partitions of the physical block devices, one loop     *)
(* after the other.  Every delete() is a remote call that may raise.      *)

MaxVolumeGroups == 2
MaxPartitions == 2

VolumeGroupNames == <<"vg0", "vg1", "vg2">>
PartitionNames == <<"part1", "part2", "part3">>

InitClearStorage ==
  /\ state = "deployed"
  /\ force = FALSE
  /\ scripts = <<>>
  /\ distro_series = None
  /\ user_data = None
  /\ boot_disk = <<>>
  /\ storage_layout = "blank"
  /\ vlans = <<>>
  /\ check_mode = FALSE
  /\ machine_status = NodeStatus_READY
  /\ interfaces = DefaultIfaces
  /\ maas_status_id = NodeStatus_READY
  /\ maas_status = "READY"
  /\ changed = FALSE
  /\ vlan_index = 1
  /\ hostname = None
  /\ power_address = None
  /\ machines = <<>>
  /\ maas_system_id = ""
  /\ naming_idle
  /\ info_idle
  /\ block_devices \in {s \in SeqsUpTo(DiskPool, MaxDisks) : NoRepeat(s)}
  /\ volume_groups \in {SubSeq(VolumeGroupNames, 1, n) : n \in 0..MaxVolumeGroups}
  /\ partitions \in [1..Len(block_devices) ->
                       {SubSeq(PartitionNames, 1, n) : n \in 0..MaxPartitions}]
  /\ clear_storage_result = ""
  /\ pc = "clear_volume_groups"
  /\ calls = <<>>
  /\ outcome = "running"
  /\ result = [changed |-> FALSE]

\* what clear_storage neither reads nor writes
unstored == <<state, force, scripts, distro_series, user_data, boot_disk,
              storage_layout, vlans, check_mode, lookup, naming, info,
              machine_status, interfaces, locals, result>>

\* mutant: the helper reports 'cleared' whatever it did
cleared_always(was, issued) == "cleared"

\* clear_storage_result after a loop that issued `issued` deletions
cleared(was, issued) == IF issued > 0 THEN "cleared" ELSE was

\* s without its elements at the indices in D
RECURSIVE without(_, _, _)
without(s, D, k) ==
  IF k > Len(s) THEN <<>>
  ELSE (IF k \in D THEN <<>> ELSE <<s[k]>>) \o without(s, D, k + 1)

\* `for vol_group in machine.volume_groups: vol_group.delete()`
volume_group_deletes(groups) ==
  [i \in 1..Len(groups) |-> Call("volume_group.delete", groups[i], "")]

ClearVolumeGroups ==
  /\ pc = "clear_volume_groups"
  /\ LET plan == volume_group_deletes(volume_groups) IN
     \E n \in FailurePoints(plan) :
       /\ calls' = calls \o Attempt(plan, n)
       /\ volume_groups' = SubSeq(volume_groups, n + 1, Len(volume_groups))
       /\ clear_storage_result' =
            cleared(clear_storage_result, Len(Attempt(plan, n)))
       /\ IF n = Len(plan)
          THEN pc' = "clear_virtual" /\ UNCHANGED outcome
          ELSE pc' = "done" /\ outcome' = "exception"
  /\ UNCHANGED <<unstored, block_devices, partitions>>

\* mutant: the second loop takes every block device
of_type_any(devices, type) == [k \in 1..Len(devices) |-> k]

\* the indices of the block devices of one type, in the order of the list
of_type(devices, type) ==
  SelectSeq([k \in 1..Len(devices) |-> k], LAMBDA k : devices[k].type = type)

\* `if disk.type == BlockDeviceType.VIRTUAL: disk.delete()`
virtual_deletes(devices) ==
  LET virtual == of_type(devices, "VIRTUAL") IN
  [i \in 1..Len(virtual) |-> Call("block_device.delete", devices[virtual[i]].id, "")]

ClearVirtual ==
  /\ pc = "clear_virtual"
  /\ LET plan == virtual_deletes(block_devices)
         virtual == of_type(block_devices, "VIRTUAL")
     IN \E n \in FailurePoints(plan) :
          LET gone == {virtual[i] : i \in 1..n} IN
          /\ calls' = calls \o Attempt(plan, n)
          /\ block_devices' = without(block_devices, gone, 1)
          /\ partitions' = without(partitions, gone, 1)
          /\ clear_storage_result' =
               cleared(clear_storage_result, Len(Attempt(plan, n)))
          /\ IF n = Len(plan)
             THEN pc' = "clear_partitions" /\ UNCHANGED outcome
             ELSE pc' = "done" /\ outcome' = "exception"
  /\ UNCHANGED <<unstored, volume_groups>>

\* `for partition in disk.partitions: partition.delete()` for each physical
\* block device in turn
RECURSIVE partition_deletes(_, _, _)
partition_deletes(devices, parts, k) ==
  IF k > Len(devices) THEN <<>>
  ELSE (IF devices[k].type = "PHYSICAL"
        THEN [i \in 1..Len(parts[k]) |->
                Call("partition.delete", devices[k].id, parts[k][i])]
        ELSE <<>>)
       \o partition_deletes(devices, parts, k + 1)

\* the partitions left when the first n deletions of the third loop succeeded
RECURSIVE partitions_after(_, _, _, _)
partitions_after(devices, parts, k, n) ==
  IF k > Len(devices) THEN <<>>
  ELSE IF devices[k].type = "PHYSICAL"
       THEN LET m == IF n < Len(parts[k]) THEN n ELSE Len(parts[k]) IN
            <<SubSeq(parts[k], m + 1, Len(parts[k]))>>
            \o partitions_after(devices, parts, k + 1, n - m)
       ELSE <<parts[k]>> \o partitions_after(devices, parts, k + 1, n)

ClearPartitions ==
  /\ pc = "clear_partitions"
  /\ LET plan == partition_deletes(block_devices, partitions, 1) IN
     \E n \in FailurePoints(plan) :
       /\ calls' = calls \o Attempt(plan, n)
       /\ partitions' = partitions_after(block_devices, partitions, 1, n)
       /\ clear_storage_result' =
            cleared(clear_storage_result, Len(Attempt(plan, n)))
       /\ IF n = Len(plan)
          THEN pc' = "done" /\ outcome' = "returned"
          ELSE pc' = "done" /\ outcome' = "exception"
  /\ UNCHANGED <<unstored, volume_groups, block_devices>>

NextClearStorage ==
  \/ ClearVolumeGroups
  \/ ClearVirtual
  \/ ClearPartitions

SpecClearStorage == InitClearStorage /\ [][NextClearStorage]_vars

----------------------------------------------------------------------------
(* get_machine and maas_machine_info: run_module looks a machine up by    *)
(* system_id, or by hostname when no system_id is given, and hands back   *)
(* its data and its power parameters.  The two files differ in the        *)
(* hostname branch.                                                       *)

MsgOneOfRequired == "One of system_id or hostname is required."

InitInfo ==
  /\ state = "ready"
  /\ force = FALSE
  /\ scripts = <<>>
  /\ distro_series = None
  /\ user_data = None
  /\ boot_disk = <<>>
  /\ storage_layout = ""
  /\ vlans = <<>>
  /\ machine_status = NodeStatus_READY
  /\ block_devices = DefaultDisks
  /\ interfaces = DefaultIfaces
  /\ maas_status_id = -1
  /\ maas_status = ""
  /\ changed = FALSE
  /\ vlan_index = 1
  /\ check_mode \in BOOLEAN
  /\ module_name \in {"get_machine", "maas_machine_info"}
  /\ system_id \in {None, "", the_system_id, "zzzzzz"}
  /\ hostname \in {None, "", "server1", "server3"}
  /\ power_address = None
  /\ machines \in {m \in SeqsUpTo(MachinePool, MaxMachines) : NoRepeat(m)}
  /\ maas_system_id = ""
  /\ maas_machine_data = Unbound
  /\ maas_machine_power = Unbound
  /\ naming_idle
  /\ storage_idle
  /\ pc = "info_connect"
  /\ calls = <<>>
  /\ outcome = "running"
  /\ result = [changed |-> FALSE]

\* what the two modules neither read nor write, and their parameters
uninformed == <<engine, check_mode, hostname, power_address, machines, naming,
                storage, module_name, system_id>>

\* `if hostname or system_id:` and the connect inside it
InfoConnect ==
  /\ pc = "info_connect"
  /\ IF Truthy(hostname) \/ Truthy(system_id)
     THEN \E ok \in BOOLEAN :
            LET c == Call("connect", "maas", "") IN
            IF ok
            THEN calls' = Append(calls, c) /\ Continue("info_lookup")
            ELSE calls' = Append(calls, Failed(c)) /\ lookup_fail_json(MsgConnect, "")
     ELSE /\ lookup_fail_json(MsgOneOfRequired, "")
          /\ UNCHANGED calls
  /\ UNCHANGED <<uninformed, maas_system_id, maas_machine_data, maas_machine_power>>

\* the machines of the service with that system_id
with_system_id(ms, id) == SelectSeq(ms, LAMBDA m : m.system_id = id)

\* `if system_id:` -- machines.get and get_power_parameters_for in one try;
\* the service answers a system_id it does not know with an error
InfoBySystemId ==
  /\ pc = "info_lookup"
  /\ Truthy(system_id)
  /\ LET plan == << Call("machines.get", system_id, ""),
                    Call("get_power_parameters_for", system_id, "") >>
         found == with_system_id(machines, system_id)
     IN \E n \in FailurePoints(plan) :
          IF found # <<>> /\ n = Len(plan)
          THEN /\ calls' = calls \o plan
               /\ maas_machine_data' = Bound(found[1])
               /\ maas_machine_power' = Bound(found[1].power_parameters)
               /\ Continue("info_exit")
          ELSE /\ calls' = calls \o Attempt(plan, IF found = <<>> THEN 0 ELSE n)
               /\ lookup_fail_json(MsgNoMachine, system_id)
               /\ UNCHANGED <<maas_machine_data, maas_machine_power>>
  /\ UNCHANGED <<uninformed, maas_system_id>>

\* mutant: get_machine asks for the power parameters as maas_machine_info does
asks_power_always(name) == TRUE

\* whether the hostname branch of the module calls get_power_parameters_for
asks_power(name) == name = "maas_machine_info"

\* `elif hostname:` -- machines.list, the first machine of the answer,
\* machines.get; IndexError on an empty answer is caught with CallError
InfoByHostname ==
  /\ pc = "info_lookup"
  /\ ~ Truthy(system_id)
  /\ Truthy(hostname)
  /\ LET list == Call("machines.list", hostname, "hostnames")
         found == with_hostname(machines, hostname)
     IN IF found = <<>>
        THEN /\ \E ok \in BOOLEAN :
                  calls' = Append(calls, IF ok THEN list ELSE Failed(list))
             /\ lookup_fail_json(MsgNoHostname, hostname)
             /\ UNCHANGED <<maas_system_id, maas_machine_data, maas_machine_power>>
        ELSE LET id == found[1].system_id
                 plan == << list, Call("machines.get", id, "") >>
                         \o (IF asks_power(module_name)
                             THEN << Call("get_power_parameters_for", id, "") >>
                             ELSE <<>>)
             IN \E n \in FailurePoints(plan) :
                  /\ calls' = calls \o Attempt(plan, n)
                  /\ maas_system_id' = IF n >= 1 THEN id ELSE maas_system_id
                  /\ IF n = Len(plan)
                     THEN /\ maas_machine_data' = Bound(found[1])
                          /\ maas_machine_power' =
                               IF asks_power(module_name)
                               THEN Bound(found[1].power_parameters)
                               ELSE maas_machine_power
                          /\ Continue("info_exit")
                     ELSE /\ lookup_fail_json(MsgNoHostname, hostname)
                          /\ UNCHANGED <<maas_machine_data, maas_machine_power>>
  /\ UNCHANGED uninformed

\* the dict handed to exit_json
info_result(check, data, power) ==
  IF check THEN [changed |-> FALSE]
  ELSE [changed |-> FALSE, data |-> data[1], power_data |-> power[1]]

\* the check-mode exit, else the result dict is built from the two locals
InfoExit ==
  /\ pc = "info_exit"
  /\ IF ~ check_mode /\ (maas_machine_data = Unbound \/ maas_machine_power = Unbound)
     THEN Raise
     ELSE /\ outcome' = "exit_json"
          /\ result' = info_result(check_mode, maas_machine_data,
                                   maas_machine_power)
          /\ pc' = "done"
  /\ UNCHANGED <<uninformed, maas_system_id, maas_machine_data,
                 maas_machine_power, calls>>

NextInfo ==
  \/ InfoConnect
  \/ InfoBySystemId
  \/ InfoByHostname
  \/ InfoExit

SpecInfo == InitInfo /\ [][NextInfo]_vars

----------------------------------------------------------------------------
(* The machine is shared: between two steps of this invocation another    *)
(* invocation, an operator or the service itself may move it to any other *)
(* status.  run_module holds no lock and learns of it only when it reads  *)
(* maas_machine.status again.                                             *)

OtherActor ==
  /\ pc # "done"
  /\ machine_status' \in StatusCodes \ {machine_status}
  /\ UNCHANGED <<params, block_devices, interfaces, locals, pc, calls, outcome, result>>

\* one setting of the deployment inputs; the status is what varies here
InitShared ==
  /\ Init
  /\ ~ check_mode
  /\ scripts = <<>>
  /\ vlans = (IF state = "deployed" THEN DefaultVlans ELSE <<>>)
  /\ boot_disk = <<>>
  /\ block_devices = DefaultDisks
  /\ storage_layout = (IF state = "deployed" THEN "flat" ELSE "")
  /\ interfaces = DefaultIfaces
  /\ distro_series = None
  /\ user_data = None

NextShared ==
  \/ Next
  \/ OtherActor

SpecShared == InitShared /\ [][NextShared]_vars

----------------------------------------------------------------------------
(* Vocabulary of the properties *)

Done == pc = "done"

CallIndices == 1..Len(calls)

Issued(op) == \E i \in CallIndices : calls[i].op = op

IssuedOk(op) == \E i \in CallIndices : calls[i].op = op /\ calls[i].ok

NumberOf(op) == Cardinality({i \in CallIndices : calls[i].op = op})

NoMutatingCall == \A i \in CallIndices : ~ IsMutating(calls[i])

\* the calls that reconfigure storage or network, and the deploy call
IsReconfiguration(c) ==
  c.op \in {"set_storage_layout", "set_as_boot_disk", "interface.delete",
            "interface.disconnect", "subnets.get", "links.create",
            "interfaces.create"}

\* the status was fetched: maas_status names the status at entry
Fetched == maas_status # ""

\* the error kinds of the design, by the message that reports them
ErrorKind(msg) ==
  CASE msg = MsgSetForce -> "PreconditionFailed"
    [] msg \in {MsgCannotCommission, MsgCannotRelease, MsgCannotDeploy}
         -> "InvalidStateTransition"
    [] msg \in {MsgNoDisk, MsgLayout} -> "ConfigurationError"
    [] msg \in {MsgDeployFailed, MsgCallError} -> "DeploymentError"
    [] msg = MsgConnect -> "ConnectionError"
    [] msg = MsgNoMachine -> "NotFound"
    [] OTHER -> "Other"

\* the message tells the user that force unlocks the operation
MentionsForce(msg) == msg = MsgSetForce

FailedWith(kind) == outcome = "fail_json" /\ ErrorKind(result.msg) = kind

----------------------------------------------------------------------------
(* C1: without force no destructive transition is made implicitly: abort  *)
(* is never issued, release is never issued for target commissioned or    *)
(* deployed, and commission is issued only when the status at entry is    *)
(* NEW.                                                                    *)

C1_NoImplicitDestructive ==
  ~ force =>
    \A i \in CallIndices :
      /\ calls[i].op # "abort"
      /\ calls[i].op = "release" => state = "ready"
      /\ calls[i].op = "commission" => maas_status = "NEW"

C1_Witness ==
  /\ ~ force
  /\ Done
  /\ IssuedOk("commission")
  /\ maas_status = "NEW"

----------------------------------------------------------------------------
(* C2: with target ready, every status at entry other than ALLOCATED,     *)
(* DEPLOYING, DEPLOYED and READY ends in the failure "cannot be released" *)
(* (InvalidStateTransition), never in a success.                          *)

C2_OtherStatusFails ==
  ( /\ Done
    /\ state = "ready"
    /\ Fetched
    /\ maas_status \notin {"ALLOCATED", "DEPLOYING", "DEPLOYED", "READY"} )
  => FailedWith("InvalidStateTransition")

----------------------------------------------------------------------------
(* C3: with target deployed and no force, status DEPLOYED or DEPLOYING at *)
(* entry fails without any mutating call, and the failure message states  *)
(* that force may unlock the operation, unlike the message for statuses   *)
(* with no path to deployed.                                              *)

C3_DeployedNeedsForceMessage ==
  ( /\ Done
    /\ state = "deployed"
    /\ ~ force
    /\ maas_status \in {"DEPLOYED", "DEPLOYING"} )
  => /\ outcome = "fail_json"
     /\ NoMutatingCall
     /\ MentionsForce(result.msg)
     /\ ErrorKind(result.msg) = "PreconditionFailed"

----------------------------------------------------------------------------
(* C4: whatever the outcome, the reported changed flag is true only if a  *)
(* mutating remote call was issued and did not fail.                      *)

C4_ChangedOnlyAfterMutation ==
  result.changed => \E i \in CallIndices : IsMutating(calls[i]) /\ calls[i].ok

C4_Witness ==
  /\ outcome = "exit_json"
  /\ result.changed
  /\ \E i \in CallIndices : IsMutating(calls[i]) /\ ~ calls[i].ok

----------------------------------------------------------------------------
(* C5: with target deployed, a deployable status and a boot_disk selector *)
(* given, if no physical block device matches the selector by name or     *)
(* serial (also when the machine has no physical device), the invocation  *)
(* fails with "No physical disk found" (ConfigurationError) and deploy is *)
(* never issued.                                                          *)

SelectorMatches(disk, selector) ==
  \/ IsSubstring(disk.name, selector)
  \/ IsSubstring(disk.serial, selector)

NoPhysicalMatch ==
  \A i \in 1..Len(block_devices) :
    block_devices[i].type = "PHYSICAL" => ~ SelectorMatches(block_devices[i], boot_disk)

\* the boot-disk step has been taken
PastBootDisk ==
  \/ pc \in {"storage_layout", "delete_interfaces", "vlans", "deploy", "exit"}
  \/ Done /\ Issued("set_storage_layout")

C5_NoMatchFails ==
  ( /\ state = "deployed"
    /\ boot_disk # <<>>
    /\ NoPhysicalMatch
    /\ PastBootDisk )
  => /\ FailedWith("ConfigurationError")
     /\ result.msg = MsgNoDisk
     /\ ~ Issued("deploy")

----------------------------------------------------------------------------
(* C6: once the subnet of a Present VLAN declaration is resolved and its  *)
(* tag differs from the declared vlan_id, the invocation fails with       *)
(* ConfigurationError; no link or VLAN interface is created for that      *)
(* declaration and deploy is not issued.                                  *)

TagMismatch(k) ==
  /\ vlans[k].state = "present"
  /\ vlans[k].vlan_id # maas_subnet.vid

Resolved(k) ==
  \E i \in CallIndices : calls[i].op = "subnets.get" /\ calls[i].vlan = k /\ calls[i].ok

C6_TagMismatchFails ==
  \A k \in 1..Len(vlans) :
    (TagMismatch(k) /\ Resolved(k)) =>
      /\ FailedWith("ConfigurationError")
      /\ ~ Issued("deploy")
      /\ \A i \in CallIndices :
           calls[i].vlan = k => calls[i].op \notin {"links.create", "interfaces.create"}

----------------------------------------------------------------------------
(* C7: if any VLAN declaration has link_mode static and an absent or      *)
(* empty ip_address, the invocation fails before any remote call, connect *)
(* included.                                                              *)

StaticWithoutAddress ==
  \E i \in 1..Len(vlans) :
    /\ vlans[i].link_mode = "static"
    /\ vlans[i].ip_address \in {None, ""}

C7_StaticNeedsAddress ==
  StaticWithoutAddress =>
    /\ calls = <<>>
    /\ pc \in {"validate", "done"}
    /\ Done => outcome = "fail_json"

----------------------------------------------------------------------------
(* C8: with target deployed, the calls are issued in this order: storage  *)
(* reset to blank, boot-disk selection, set-layout, interface clearing,   *)
(* then per Present VLAN in declaration order its subnet resolution, the  *)
(* two link-up creations on the parent, the VLAN interface creation and   *)
(* the mode link, and last deploy; deploy is issued once and nothing      *)
(* follows it.  When deploy is issued, the reset, the declared layout and *)
(* the five calls of every Present declaration whose tag matches were     *)
(* issued before it; the end-to-end scenario of the design yields exactly *)
(* its expected call list.                                                *)

FirstLayoutCall(i) ==
  /\ calls[i].op = "set_storage_layout"
  /\ \A j \in 1..(i - 1) : calls[j].op # "set_storage_layout"

Phase(i) ==
  LET c == calls[i] IN
  CASE c.op \in {"connect", "machines.get"} -> 0
    [] c.op \in {"release", "sleep", "refresh"} -> 1
    [] c.op = "set_storage_layout" /\ FirstLayoutCall(i) -> 2
    [] c.op = "set_as_boot_disk" -> 3
    [] c.op = "set_storage_layout" /\ ~ FirstLayoutCall(i) -> 4
    [] c.op \in {"interface.delete", "interface.disconnect"} -> 5
    [] c.op \in {"subnets.get", "links.create", "interfaces.create"} -> 6
    [] c.op = "deploy" -> 7
    [] OTHER -> 8

\* the place of a call within the calls of its VLAN declaration
VlanStep(c) ==
  CASE c.op = "subnets.get" -> 1
    [] c.op = "links.create" /\ c.arg = "LINK_UP subnet" -> 2
    [] c.op = "links.create" /\ c.arg = "LINK_UP" -> 3
    [] c.op = "interfaces.create" -> 4
    [] OTHER -> 5

ModeName(mode) ==
  CASE mode = "dhcp" -> "DHCP" [] mode = "auto" -> "AUTO" [] mode = "static" -> "STATIC"
    [] OTHER -> "?"

CallsInOrder ==
  \A i, j \in CallIndices :
    i < j =>
      /\ Phase(i) <= Phase(j)
      /\ Phase(i) = 4 => Phase(j) # 4
      /\ (Phase(i) = 6 /\ Phase(j) = 6) =>
           \/ calls[i].vlan < calls[j].vlan
           \/ calls[i].vlan = calls[j].vlan /\ VlanStep(calls[i]) < VlanStep(calls[j])
      /\ calls[i].op # "deploy"

CallsAsDeclared ==
  \A i \in CallIndices :
    /\ Phase(i) = 2 => calls[i].arg = "blank"
    /\ Phase(i) = 3 => boot_disk # <<>>
    /\ Phase(i) = 4 => calls[i].arg = storage_layout
    /\ Phase(i) = 6 =>
         /\ calls[i].vlan \in 1..Len(vlans)
         /\ vlans[calls[i].vlan].state = "present"
         /\ VlanStep(calls[i]) \in 2..4 => calls[i].target = vlans[calls[i].vlan].parent
         /\ VlanStep(calls[i]) = 5 =>
              /\ calls[i].op = "links.create"
              /\ calls[i].target = "vlan_interface"
              /\ calls[i].arg = ModeName(vlans[calls[i].vlan].link_mode)
    /\ Phase(i) < 8

NothingSkippedBeforeDeploy ==
  Issued("deploy") =>
    /\ \E i \in CallIndices : Phase(i) = 2
    /\ storage_layout # "" => \E i \in CallIndices : Phase(i) = 4 /\ calls[i].ok
    /\ \A k \in 1..Len(vlans) :
         vlans[k].state = "present" =>
           /\ Resolved(k)
           /\ vlans[k].vlan_id = maas_subnet.vid =>
                \A s \in 1..5 :
                  \E i \in CallIndices :
                    calls[i].vlan = k /\ VlanStep(calls[i]) = s /\ calls[i].ok

Shape(c) == <<c.op, c.target, c.arg>>

EndToEndCalls ==
  << <<"connect", "maas", "">>,
     <<"machines.get", the_system_id, "">>,
     <<"set_storage_layout", the_system_id, "blank">>,
     <<"set_storage_layout", the_system_id, "flat">>,
     <<"interface.disconnect", "eth0", "">>,
     <<"subnets.get", the_cidr, "">>,
     <<"links.create", "eth0", "LINK_UP subnet">>,
     <<"links.create", "eth0", "LINK_UP">>,
     <<"interfaces.create", "eth0", "VLAN">>,
     <<"links.create", "vlan_interface", "DHCP">>,
     <<"deploy", the_system_id, "">> >>

EndToEndScenario ==
  /\ state = "deployed"
  /\ maas_status = "READY"
  /\ storage_layout = "flat"
  /\ boot_disk = <<>>
  /\ vlans = DefaultVlans
  /\ distro_series = None
  /\ user_data = None
  /\ ~ Issued("interface.delete")
  /\ outcome = "exit_json"

----------------------------------------------------------------------------
(* C9: with target deployed, force and status DEPLOYED or DEPLOYING at    *)
(* entry, release is issued, then the status is re-fetched; storage,      *)
(* network and deploy calls are issued only after that and only if the    *)
(* re-fetched status is READY or ALLOCATED, in which case the storage     *)
(* reset follows; any other re-fetched status fails with "cannot be       *)
(* deployed" (InvalidStateTransition) and none of those calls is issued.  *)

ForcedRedeploy ==
  /\ state = "deployed"
  /\ force
  /\ maas_status \in {"DEPLOYED", "DEPLOYING"}

Refetched == IssuedOk("refresh")

C9_ForcedRedeploy ==
  ForcedRedeploy =>
    /\ \A j \in CallIndices :
         (IsReconfiguration(calls[j]) \/ calls[j].op = "deploy") =>
           \E i, r \in 1..(j - 1) :
             /\ i < r
             /\ calls[i].op = "release" /\ calls[i].arg = "wait" /\ calls[i].ok
             /\ calls[r].op = "refresh" /\ calls[r].ok
    /\ NumberOf("release") <= 1
    /\ (Refetched /\ maas_status_id \notin {NodeStatus_READY, NodeStatus_ALLOCATED}) =>
         /\ \A j \in CallIndices :
              ~ IsReconfiguration(calls[j]) /\ calls[j].op # "deploy"
         /\ pc \in {"deployed_check", "done"}
         /\ Done => FailedWith("InvalidStateTransition")
    /\ (Refetched /\ maas_status_id \in {NodeStatus_READY, NodeStatus_ALLOCATED}) =>
         /\ ~ FailedWith("InvalidStateTransition")
         /\ Done => Issued("set_storage_layout")

C9_Witness ==
  /\ ForcedRedeploy
  /\ Refetched
  /\ maas_status_id = NodeStatus_READY
  /\ outcome = "exit_json"
  /\ IssuedOk("deploy")

----------------------------------------------------------------------------
(* C10 as stated: with target commissioned and status NEW, for both       *)
(* values of force exactly one commission call and no other mutating call *)
(* is issued, and the invocation reports success with changed=true.       *)

CommissionFromNew ==
  /\ Done
  /\ state = "commissioned"
  /\ maas_status = "NEW"

OnlyOneCommission ==
  /\ NumberOf("commission") = 1
  /\ \A i \in CallIndices : IsMutating(calls[i]) => calls[i].op = "commission"

----------------------------------------------------------------------------
(* C11 as stated: with target commissioned and status READY, ALLOCATED or *)
(* BROKEN, with force=false the invocation fails with PreconditionFailed  *)
(* and issues no mutating call; with force=true it issues exactly one     *)
(* commission call and reports changed=true.                              *)

CommissionFromIdle ==
  /\ Done
  /\ state = "commissioned"
  /\ maas_status \in {"READY", "ALLOCATED", "BROKEN"}

RefusedWithoutForce ==
  /\ FailedWith("PreconditionFailed")
  /\ NoMutatingCall

----------------------------------------------------------------------------
(* C12 as stated: with target commissioned and force=true the escape call *)
(* precedes the commission call: from DEPLOYED a waiting release is       *)
(* issued and completes before commission; from COMMISSIONING or          *)
(* DEPLOYING abort is issued and the pause elapses before commission; in  *)
(* each case exactly one escape call and one commission call are issued   *)
(* and changed=true. With force=false these statuses fail with            *)
(* PreconditionFailed and no call that acts on the machine is issued.     *)

CommissionFromBusy ==
  /\ Done
  /\ state = "commissioned"
  /\ maas_status \in {"DEPLOYED", "COMMISSIONING", "DEPLOYING"}

\* the call that takes the machine out of its status before commission
EscapeOp == IF maas_status = "DEPLOYED" THEN "release" ELSE "abort"

\* call i is the escape call and it has completed
Escaped(i) ==
  /\ calls[i].op = EscapeOp
  /\ calls[i].ok
  /\ EscapeOp = "release" => calls[i].arg = "wait"

\* the pause between abort and commission
Paused(i, j) ==
  EscapeOp = "abort" =>
    \E k \in (i + 1)..(j - 1) : calls[k].op = "sleep" /\ calls[k].arg = "20"

EscapePrecedesCommission ==
  \A j \in CallIndices :
    calls[j].op = "commission" =>
      \E i \in 1..(j - 1) : Escaped(i) /\ Paused(i, j)

OnlyEscapeAndCommission ==
  \A i \in CallIndices :
    IsMutating(calls[i]) => calls[i].op \in {EscapeOp, "commission"}

----------------------------------------------------------------------------
(* C13: with target commissioned, for every status other than NEW, READY, *)
(* ALLOCATED, BROKEN, DEPLOYED, COMMISSIONING and DEPLOYING, codes        *)
(* without a label included, the invocation fails with                    *)
(* InvalidStateTransition for both values of force and issues no mutating *)
(* remote call.                                                           *)

CommissionableLabels ==
  {"NEW", "READY", "ALLOCATED", "BROKEN", "DEPLOYED", "COMMISSIONING", "DEPLOYING"}

CommissionFromOther ==
  /\ state = "commissioned"
  /\ Fetched
  /\ maas_status \notin CommissionableLabels

C13_OtherStatusCannotCommission ==
  CommissionFromOther =>
    /\ NoMutatingCall
    /\ pc \in {"commissioned", "done"}
    /\ Done => FailedWith("InvalidStateTransition")

C13_Witness ==
  /\ CommissionFromOther
  /\ maas_status = "UNKNOWN"
  /\ force
  /\ FailedWith("InvalidStateTransition")

----------------------------------------------------------------------------
(* C14: with target ready and status ALLOCATED, DEPLOYING or DEPLOYED,    *)
(* for both values of force exactly one release call and no other         *)
(* mutating call is issued; if the release does not fail, the result is   *)
(* success with changed=true.                                             *)

ReleaseToReady ==
  /\ Done
  /\ state = "ready"
  /\ maas_status \in {"ALLOCATED", "DEPLOYING", "DEPLOYED"}

OnlyOneRelease ==
  /\ NumberOf("release") = 1
  /\ \A i \in CallIndices : IsMutating(calls[i]) => calls[i].op = "release"

C14_ReleaseReportsChanged ==
  ReleaseToReady =>
    /\ OnlyOneRelease
    /\ IssuedOk("release") =>
         /\ outcome = "exit_json"
         /\ result.changed

\* the same statement for the invocations that do not run in check mode
C14_OutsideCheckMode == ~ check_mode => C14_ReleaseReportsChanged

----------------------------------------------------------------------------
(* C15: target ready is idempotent on a READY machine: as long as the     *)
(* machine is READY, no step of two successive invocations with target    *)
(* ready issues a mutating remote call or changes the machine status, and *)
(* whatever an invocation reports carries changed=false.                  *)

NewCalls == SubSeq(calls', Len(calls) + 1, Len(calls'))

ReadyStaysReady ==
  (state = "ready" /\ machine_status = NodeStatus_READY) =>
    /\ machine_status' = NodeStatus_READY
    /\ \A i \in DOMAIN NewCalls : ~ IsMutating(NewCalls[i])
    /\ ~ result'.changed
    /\ ~ changed'

C15_ReadyIsIdempotent == [][ReadyStaysReady]_vars

C15_Witness ==
  /\ state = "ready"
  /\ machine_status = NodeStatus_READY
  /\ \E i \in CallIndices :
       /\ calls[i] = [op |-> "end", target |-> "READY", arg |-> "unchanged",
                      vlan |-> 0, ok |-> TRUE]
  /\ Done
  /\ maas_status = "READY"
  /\ outcome = "exit_json"
  /\ ~ result.changed
  /\ NoMutatingCall

----------------------------------------------------------------------------
(* C16: the status translator is total: it maps each code 0..22 to its    *)
(* documented label, the 23 labels are pairwise distinct, and every other *)
(* integer, negative or above 22, is mapped to UNKNOWN.                   *)

DocumentedLabels ==
  <<"NEW", "COMMISSIONING", "FAILED_COMMISSIONING", "MISSING", "READY",
    "RESERVED", "DEPLOYED", "RETIRED", "BROKEN", "DEPLOYING", "ALLOCATED",
    "FAILED_DEPLOYMENT", "RELEASING", "FAILED_RELEASING", "DISK_ERASING",
    "FAILED_DISK_ERASING", "RESCUE_MODE", "ENTERING_RESCUE_MODE",
    "FAILED_ENTERING_RESCUE_MODE", "EXITING_RESCUE_MODE",
    "FAILED_EXITING_RESCUE_MODE", "TESTING", "FAILED_TESTING">>

LabelledCodes == 0..(Len(DocumentedLabels) - 1)

DocumentedLabel(code) ==
  IF code \in LabelledCodes THEN DocumentedLabels[code + 1] ELSE "UNKNOWN"

C16_TranslatorTotal ==
  /\ Fetched =>
       /\ maas_status_id = machine_status
       /\ maas_status = DocumentedLabel(machine_status)
  /\ \A a, b \in LabelledCodes :
       a # b => status_map(a) # status_map(b)
  /\ \A a \in LabelledCodes : status_map(a) # "UNKNOWN"

C16_Witness ==
  /\ Fetched
  /\ machine_status < 0
  /\ maas_status = "UNKNOWN"

----------------------------------------------------------------------------
(* C17: the deploy call carries exactly the deployment parameters that    *)
(* were supplied, a parameter being supplied when it is not null: distro  *)
(* is passed if and only if distro_series was supplied, and user data is  *)
(* passed if and only if user_data was supplied.                          *)

PassesDistro(c) == c.arg \in {"user_data distro_series", "distro_series"}

PassesUserData(c) == c.arg \in {"user_data distro_series", "user_data"}

C17_DeployCarriesSupplied ==
  \A i \in CallIndices :
    calls[i].op = "deploy" =>
      /\ PassesDistro(calls[i]) <=> distro_series # None
      /\ PassesUserData(calls[i]) <=> user_data # None

\* a distro that was supplied, and is not empty, is left out of the call
C17_DistroDropped ==
  \E i \in CallIndices :
    /\ calls[i].op = "deploy"
    /\ Truthy(distro_series)
    /\ ~ PassesDistro(calls[i])

----------------------------------------------------------------------------
(* C18: if the remote deploy call is rejected, the invocation ends in a   *)
(* failure outcome with a DeploymentError, whichever of the four          *)
(* combinations of distro and user data the call was made with, and never *)
(* reports success.                                                       *)

DeployRejected ==
  \E i \in CallIndices : calls[i].op = "deploy" /\ ~ calls[i].ok

C18_RejectedDeployFails ==
  DeployRejected =>
    /\ Done
    /\ FailedWith("DeploymentError")
    /\ ~ result.changed
    /\ calls[Len(calls)].op = "deploy"

C18_Witness ==
  /\ DeployRejected
  /\ Truthy(distro_series)
  /\ Truthy(user_data)
  /\ calls[Len(calls)].arg = "user_data distro_series"
  /\ FailedWith("DeploymentError")

----------------------------------------------------------------------------
(* C19: set_boot_disk considers physical block devices only and succeeds  *)
(* if and only if at least one physical device has a name or a serial     *)
(* matching the selector; on success exactly one device, the first match  *)
(* in listing order, is set as boot disk, whatever devices follow it.     *)

PhysicalMatches ==
  {i \in 1..Len(block_devices) :
     /\ block_devices[i].type = "PHYSICAL"
     /\ SelectorMatches(block_devices[i], boot_disk)}

FirstMatch == CHOOSE i \in PhysicalMatches : \A j \in PhysicalMatches : i <= j

BootDiskRefused == Done /\ outcome = "fail_json" /\ result.msg = MsgNoDisk

\* set_boot_disk was called with a selector and has returned
BootDiskReturned ==
  /\ state = "deployed"
  /\ boot_disk # <<>>
  /\ PastBootDisk \/ BootDiskRefused

SetAsBootDisk == {i \in CallIndices : calls[i].op = "set_as_boot_disk"}

C19_FirstPhysicalMatchSelected ==
  BootDiskReturned =>
    /\ PastBootDisk <=> PhysicalMatches # {}
    /\ \A i \in SetAsBootDisk :
         \E d \in 1..Len(block_devices) :
           /\ block_devices[d].id = calls[i].target
           /\ block_devices[d].type = "PHYSICAL"
    /\ PastBootDisk =>
         /\ Cardinality(SetAsBootDisk) = 1
         /\ \A i \in SetAsBootDisk : calls[i].target = block_devices[FirstMatch].id

\* the first physical device matched and was set, a later one did not match
C19_SetThenRefused ==
  /\ BootDiskRefused
  /\ PhysicalMatches # {}
  /\ IssuedOk("set_as_boot_disk")

----------------------------------------------------------------------------
(* C20: delete_interfaces deletes every VLAN, bond and bridge interface   *)
(* of the machine, issues disconnect on every physical interface, and     *)
(* never deletes a physical interface, so that after it every physical    *)
(* interface that existed before still exists.                            *)

IsVirtualType(i) == i.type \in {"VLAN", "BOND", "BRIDGE"}

Remaining == {interfaces'[k] : k \in 1..Len(interfaces')}

NewCall(op, name) ==
  \E k \in DOMAIN NewCalls :
    NewCalls[k].op = op /\ NewCalls[k].target = name /\ NewCalls[k].ok

ClearInterfaces ==
  pc = "delete_interfaces" =>
    /\ \A i \in 1..Len(interfaces) :
         interfaces[i].type = "PHYSICAL" =>
           /\ ~ \E k \in DOMAIN NewCalls :
                  /\ NewCalls[k].op = "interface.delete"
                  /\ NewCalls[k].target = interfaces[i].name
           /\ interfaces[i] \in Remaining
    /\ pc' = "vlans" =>
         \A i \in 1..Len(interfaces) :
           /\ IsVirtualType(interfaces[i]) =>
                /\ NewCall("interface.delete", interfaces[i].name)
                /\ interfaces[i] \notin Remaining
           /\ interfaces[i].type = "PHYSICAL" =>
                NewCall("interface.disconnect", interfaces[i].name)

C20_ClearInterfaces == [][ClearInterfaces]_vars

C20_Witness ==
  /\ pc = "vlans"
  /\ vlan_index = 1
  /\ IssuedOk("interface.disconnect")
  /\ \E i \in CallIndices :
       calls[i].op = "interface.delete" /\ calls[i].target = "br0" /\ calls[i].ok
  /\ interfaces = << Iface("eth0", "PHYSICAL") >>

----------------------------------------------------------------------------
(* C21: for a present VLAN declaration whose tag matches,                 *)
(* create_vlan_interface issues its calls in this order: link-up on the   *)
(* parent with the resolved subnet, link-up on the parent without subnet, *)
(* creation of the VLAN interface on that parent, then exactly one link   *)
(* creation on the new interface whose mode is the declared link_mode,    *)
(* the static one carrying the declared ip_address.  A call that fails    *)
(* ends the sequence there.                                               *)

CallsOf(k) == SelectSeq(calls, LAMBDA c : c.vlan = k)

\* a call as the service sees it, the address of a static link included
Sent(c) ==
  IF c.op = "links.create" /\ c.arg = "STATIC"
  THEN <<c.op, c.target, c.arg, c.ip_address>>
  ELSE <<c.op, c.target, c.arg>>

DeclaredLink(vlan) ==
  IF vlan.link_mode = "static"
  THEN <<"links.create", "vlan_interface", "STATIC", vlan.ip_address>>
  ELSE <<"links.create", "vlan_interface", ModeName(vlan.link_mode)>>

ApplyVlanCalls(vlan) ==
  << <<"subnets.get", vlan.subnet_cidr, "">>,
     <<"links.create", vlan.parent, "LINK_UP subnet">>,
     <<"links.create", vlan.parent, "LINK_UP">>,
     <<"interfaces.create", vlan.parent, "VLAN">>,
     DeclaredLink(vlan) >>

TagMatches(k) ==
  /\ vlans[k].state = "present"
  /\ vlans[k].vlan_id = maas_subnet.vid

\* the loop has gone past the k-th declaration
Applied(k) == state = "deployed" /\ vlan_index > k

C21_ApplyVlanOrder ==
  \A k \in 1..Len(vlans) :
    TagMatches(k) =>
      LET issued == CallsOf(k)
          expected == ApplyVlanCalls(vlans[k])
      IN /\ Len(issued) <= Len(expected)
         /\ \A i \in 1..Len(issued) :
              /\ Sent(issued[i]) = expected[i]
              /\ i < Len(issued) => issued[i].ok
         /\ Applied(k) =>
              /\ Len(issued) = Len(expected)
              /\ issued[Len(issued)].ok

C21_Witness ==
  /\ Len(vlans) = 2
  /\ Applied(2)
  /\ TagMatches(1) /\ vlans[1].link_mode = "static" /\ vlans[1].ip_address = "10.0.0.5"
  /\ TagMatches(2) /\ vlans[2].link_mode = "dhcp"
  /\ Len(CallsOf(1)) = 5
  /\ Len(CallsOf(2)) = 5

----------------------------------------------------------------------------
(* C22: on success the result reports the changed flag together with the  *)
(* resulting state of the machine, the status it has after the            *)
(* transitions issued by this invocation.                                 *)

Succeeded == Done /\ outcome = "exit_json"

\* the only status the result dict carries
ReportedState == result.original_state

C22_ReportsResultingState ==
  Succeeded =>
    /\ result.changed = changed
    /\ ReportedState = status_map(machine_status)

\* a transition was made and the result names the status before it
C22_ReportsEntryState ==
  /\ Succeeded
  /\ ~ check_mode
  /\ result.changed
  /\ ReportedState = maas_status
  /\ ReportedState # status_map(machine_status)

----------------------------------------------------------------------------
(* C23: with target commissioned and a non-empty list of commissioning    *)
(* scripts, every commission call carries that list, whichever starting   *)
(* status led to the commission.                                          *)

CarriesScripts(c) == c.arg = "scripts"

C23_CommissionCarriesScripts ==
  (state = "commissioned" /\ scripts # <<>>) =>
    \A i \in CallIndices :
      calls[i].op = "commission" => CarriesScripts(calls[i])

\* the same for the starting statuses that need no escape call
C23_WithoutEscape ==
  (state = "commissioned" /\ scripts # <<>>
     /\ maas_status \in {"NEW", "READY", "ALLOCATED", "BROKEN"}) =>
    \A i \in CallIndices :
      calls[i].op = "commission" => CarriesScripts(calls[i])

----------------------------------------------------------------------------
(* C24: the lookup by hostname yields the system_id of the first machine  *)
(* of the list that carries the hostname, and fails with the not-found    *)
(* message, never succeeding with an empty identifier, when no machine    *)
(* carries it.                                                            *)

Named == {i \in 1..Len(machines) : machines[i].hostname = hostname}

FirstNamed == CHOOSE i \in Named : \A j \in Named : i <= j

LookedUpByHostname ==
  /\ Truthy(hostname)
  /\ IssuedOk("machines.list")

----------------------------------------------------------------------------
(* C25: a failure of any reconfiguration step before deploy (storage      *)
(* reset to blank, boot-disk selection, set-layout, interface clearing,   *)
(* VLAN application) ends the invocation in a failure outcome and         *)
(* prevents the deploy call.                                              *)

FailedReconfiguration(i) == IsReconfiguration(calls[i]) /\ ~ calls[i].ok

EndedInFailure == Done /\ outcome \in {"fail_json", "exception"}

C25_FailedStepPreventsDeploy ==
  state = "deployed" =>
    /\ (\E i \in CallIndices : FailedReconfiguration(i)) =>
         /\ EndedInFailure
         /\ ~ Issued("deploy")
    /\ BootDiskRefused => ~ Issued("deploy")

\* the same for every step but the storage reset to blank
C25_AfterBlankReset ==
  state = "deployed" =>
    /\ (\E i \in CallIndices : FailedReconfiguration(i) /\ ~ FirstLayoutCall(i)) =>
         /\ EndedInFailure
         /\ ~ Issued("deploy")
    /\ BootDiskRefused => ~ Issued("deploy")

\* the blank reset was refused and the machine was deployed all the same
C25_DeployedAfterFailedReset ==
  /\ \E i \in CallIndices : FailedReconfiguration(i) /\ FirstLayoutCall(i)
  /\ IssuedOk("deploy")
  /\ outcome = "exit_json"

----------------------------------------------------------------------------
(* C26: once any step has failed, the invocation issues no further remote *)
(* call of any kind: no retry of the failed call, no later step and no    *)
(* compensating call, so what was already applied remains.                *)

FailedCalls == {i \in CallIndices : IsRemote(calls[i]) /\ ~ calls[i].ok}

C26_NothingAfterFailure ==
  \A i \in FailedCalls :
    /\ i = Len(calls)
    /\ Done

\* the same for every call but the storage reset to blank
C26_NothingAfterFailureButReset ==
  \A i \in FailedCalls :
    ~ (state = "deployed" /\ FirstLayoutCall(i)) =>
      /\ i = Len(calls)
      /\ Done

\* VLAN interfaces created before the failure are still on the machine
C26_CreatedInterfacesRemain ==
  (Done /\ IssuedOk("interfaces.create")) =>
    \E k \in 1..Len(interfaces) : interfaces[k].type = "VLAN"

----------------------------------------------------------------------------
(* C27: after each of the two pauses, the one following a forced abort on *)
(* the way to commissioned and the one following a forced release on the  *)
(* way to deployed, the machine status is read again from the service     *)
(* before the next transition call is issued.                             *)

IsTransition(c) == c.op \in {"commission", "release", "abort", "deploy"}

ReadsStatus(c) == c.op \in {"refresh", "machines.get"} /\ c.ok

ReadAgainBetween(i, j) ==
  \E r \in (i + 1)..(j - 1) : ReadsStatus(calls[r])

C27_StatusReadAfterPause ==
  \A i, j \in CallIndices :
    (i < j /\ calls[i].op = "sleep" /\ IsTransition(calls[j])) =>
      ReadAgainBetween(i, j)

\* the pause of the deploy path alone
C27_StatusReadAfterRelease ==
  \A i, j \in CallIndices :
    (i < j /\ calls[i].op = "sleep" /\ calls[i].arg = "30" /\ IsTransition(calls[j])) =>
      ReadAgainBetween(i, j)

\* commission follows the pause after abort with no read in between
C27_CommissionRightAfterPause ==
  \E i \in CallIndices :
    /\ i + 1 \in CallIndices
    /\ calls[i].op = "sleep" /\ calls[i].arg = "20"
    /\ calls[i + 1].op = "commission"

----------------------------------------------------------------------------
(* C28: the machine being shared with other actors that may change its    *)
(* status between the remote calls of this invocation, the deploy call is *)
(* never issued while the status of the machine in the service is neither *)
(* READY nor ALLOCATED.                                                   *)

DeployIssued ==
  \E k \in DOMAIN NewCalls : NewCalls[k].op = "deploy"

DeployOnlyWhenDeployable ==
  DeployIssued => machine_status \in {NodeStatus_READY, NodeStatus_ALLOCATED}

C28_DeployOnlyWhenDeployable == [][DeployOnlyWhenDeployable]_vars

----------------------------------------------------------------------------
(* C29: VLAN application is restricted to the declarations whose state is *)
(* present: no subnet resolution, link creation or VLAN interface         *)
(* creation is issued on behalf of an absent declaration, and every       *)
(* present declaration the loop has gone past was applied exactly once,   *)
(* whatever the state of the declarations before it in the list.          *)

Resolutions(k) ==
  {i \in CallIndices : calls[i].op = "subnets.get" /\ calls[i].vlan = k}

C29_OnlyPresentApplied ==
  \A k \in 1..Len(vlans) :
    /\ vlans[k].state = "absent" => CallsOf(k) = <<>>
    /\ vlans[k].state = "present" =>
         /\ Cardinality(Resolutions(k)) <= 1
         /\ Applied(k) => Cardinality(Resolutions(k)) = 1
    /\ \A i \in CallIndices : calls[i].vlan <= Len(vlans)

C29_Witness ==
  /\ Len(vlans) = 2
  /\ vlans[1].state = "absent"
  /\ vlans[2].state = "present"
  /\ Applied(2)
  /\ CallsOf(1) = <<>>
  /\ Len(CallsOf(2)) = 5

----------------------------------------------------------------------------
(* C30: in check mode an invocation issues no mutating remote call: no    *)
(* commission, release, abort, storage, interface or deploy call, for     *)
(* every starting status and target.                                      *)

C30_CheckModeIsDry == check_mode => NoMutatingCall

\* a check-mode run that deployed the machine and reported no change
C30_DeployedInCheckMode ==
  /\ check_mode
  /\ IssuedOk("deploy")
  /\ outcome = "exit_json"
  /\ ~ result.changed

----------------------------------------------------------------------------
(* C31: every failure reported by maas_machine_state carries              *)
(* changed=false and an empty system_id, whatever mutating calls had      *)
(* already succeeded before the failure.                                  *)

SucceededMutation == \E i \in CallIndices : IsMutating(calls[i]) /\ calls[i].ok

----------------------------------------------------------------------------
(* C32: the state named in a state-related failure message is the status  *)
(* that caused the failure, the one most recently fetched; after a forced *)
(* release on the way to deployed, a failure names the status fetched     *)
(* again and not the one observed at entry.                               *)

NamesState(msg) ==
  msg \in {MsgSetForce, MsgCannotCommission, MsgCannotRelease, MsgCannotDeploy}

\* the label of the status the invocation fetched last
LastFetched == status_map(maas_status_id)

C32_MessageNamesLastFetched ==
  (outcome = "fail_json" /\ NamesState(result.msg)) =>
    result.msg_arg = LastFetched

\* the same for the failures with no forced release before them
C32_WithoutRelease ==
  (outcome = "fail_json" /\ NamesState(result.msg) /\ ~ Refetched) =>
    result.msg_arg = LastFetched

\* after the forced release the message names the status at entry
C32_NamesEntryState ==
  /\ outcome = "fail_json"
  /\ result.msg = MsgCannotDeploy
  /\ Refetched
  /\ result.msg_arg = "DEPLOYED"
  /\ LastFetched = "RELEASING"

----------------------------------------------------------------------------
(* C33: the lookup by power address succeeds with the identifier of a     *)
(* machine whose power parameter named power_address equals the given     *)
(* address exactly, when there is one, and succeeds with an empty         *)
(* identifier when no machine matches; no parameter other than            *)
(* power_address can produce a match.                                     *)

HasPowerAddress(m) ==
  \E k \in 1..Len(m.power_parameters) :
    /\ m.power_parameters[k].key = power_address_key
    /\ m.power_parameters[k].value = power_address

AtAddress == {i \in 1..Len(machines) : HasPowerAddress(machines[i])}

LookedUpByPowerAddress ==
  /\ ~ Truthy(hostname)
  /\ Truthy(power_address)
  /\ Issued("machines.list")
  /\ \A i \in CallIndices : calls[i].ok

\* what the lookup came to: the local, and the identifier handed back
C33_ExactPowerAddress ==
  LookedUpByPowerAddress =>
    /\ pc \in {"lookup_exit", "done"}
    /\ IF AtAddress = {}
       THEN maas_system_id = ""
       ELSE \E i \in AtAddress : maas_system_id = machines[i].system_id
    /\ Done => outcome = "exit_json"

\* a machine is found under an address that only another of its power
\* parameters carries
C33_MatchedByOtherKey ==
  /\ LookedUpByPowerAddress
  /\ AtAddress = {}
  /\ outcome = "exit_json"
  /\ ~ check_mode
  /\ result.system_id = "4y3h7n"

----------------------------------------------------------------------------
(* C34: maas_hostname is idempotent.  It reports changed=true if and only *)
(* if the requested hostname or domain differs from the machine's current *)
(* one and the update was saved; when both already match it issues no     *)
(* save and reports changed=false, so a second invocation with the same   *)
(* arguments after a successful one issues no save.                       *)

\* the calls of the invocation under way: those after the last "end"
ThisRun ==
  {i \in CallIndices : \A j \in CallIndices : calls[j].op = "end" => j < i}

MachineRead == \E i \in ThisRun : calls[i].op = "machines.get" /\ calls[i].ok

SaveIssued == \E i \in ThisRun : calls[i].op = "save"

Saved == \E i \in ThisRun : calls[i].op = "save" /\ calls[i].ok

\* the machine as this invocation found it against what was asked for
Differs == domain # maas_machine_domain \/ hostname # maas_machine_name

AfterSuccess ==
  \E j \in CallIndices : calls[j].op = "end" /\ calls[j].ok

C34_Idempotent ==
  /\ (Done /\ outcome = "exit_json") => (result.changed <=> (Differs /\ Saved))
  /\ (MachineRead /\ ~ Differs) => ~ SaveIssued
  /\ AfterSuccess => ~ SaveIssued

\* the same outside check mode
C34_OutsideCheckMode == ~ check_mode => C34_Idempotent

\* a check-mode run saves the new hostname and reports changed=false
C34_SavedInCheckMode ==
  /\ check_mode
  /\ Done /\ outcome = "exit_json"
  /\ Differs /\ Saved
  /\ maas_machine.hostname = hostname
  /\ ~ result.changed

\* the second run after a successful first one that had to save
C34_SecondRunSavesNothing ==
  /\ AfterSuccess
  /\ NumberOf("save") > 0
  /\ Done /\ outcome = "exit_json"
  /\ ~ result.changed

----------------------------------------------------------------------------
(* C35: in maas_hostname, when the requested domain differs from the      *)
(* machine's domain and the service has no domain of that name, the       *)
(* invocation fails and the machine is left as it was: no save is issued, *)
(* even when the requested hostname differs as well.                      *)

UnknownDomain ==
  /\ MachineRead
  /\ domain # maas_machine_domain
  /\ \A i \in 1..Len(maas_domains) : maas_domains[i] # domain

DomainsListed == \E i \in ThisRun : calls[i].op = "domains.list" /\ calls[i].ok

C35_UnknownDomainFails ==
  UnknownDomain =>
    /\ ~ SaveIssued
    /\ maas_machine = [hostname |-> maas_machine_name,
                       domain |-> maas_machine_domain]
    /\ Done => outcome \in {"fail_json", "exception"}
    /\ DomainsListed =>
         /\ Done /\ outcome = "fail_json"
         /\ result.msg = MsgNoDomain /\ result.msg_arg = domain

\* refused for its domain while the hostname was to change too
C35_Witness ==
  /\ UnknownDomain
  /\ hostname # maas_machine_name
  /\ Done /\ outcome = "fail_json"
  /\ result.msg = MsgNoDomain
  /\ maas_machine.hostname # hostname

----------------------------------------------------------------------------
(* C36: storage clear deletes every volume group, then every virtual      *)
(* block device, then every partition of every physical block device, in  *)
(* that order, never deletes a physical block device itself, and reports  *)
(* 'cleared' if and only if at least one deletion was issued.             *)

DeletionRank(c) ==
  CASE c.op = "volume_group.delete" -> 1
    [] c.op = "block_device.delete" -> 2
    [] c.op = "partition.delete" -> 3
    [] OTHER -> 0

Targets(cs) == [i \in 1..Len(cs) |-> cs[i].target]

\* the block devices of one type, in the order of the list
DevicesOf(type) == SelectSeq(block_devices, LAMBDA d : d.type = type)

\* a loop of clear_storage that ran to its end deleted all it was to delete
LoopDeletedAll ==
  /\ (pc = "clear_volume_groups" /\ pc' = "clear_virtual") =>
       /\ Targets(NewCalls) = volume_groups
       /\ \A i \in 1..Len(NewCalls) : NewCalls[i].op = "volume_group.delete"
  /\ (pc = "clear_virtual" /\ pc' = "clear_partitions") =>
       /\ Targets(NewCalls) = [i \in 1..Len(DevicesOf("VIRTUAL")) |->
                                 DevicesOf("VIRTUAL")[i].id]
       /\ \A i \in 1..Len(NewCalls) : NewCalls[i].op = "block_device.delete"
  /\ (pc = "clear_partitions" /\ outcome' = "returned") =>
       /\ \A k \in 1..Len(block_devices) :
            block_devices[k].type = "PHYSICAL" =>
              \A i \in 1..Len(partitions[k]) :
                \E j \in 1..Len(NewCalls) :
                  /\ NewCalls[j].op = "partition.delete"
                  /\ NewCalls[j].target = block_devices[k].id
                  /\ NewCalls[j].arg = partitions[k][i]
       /\ \A j \in 1..Len(NewCalls) :
            /\ NewCalls[j].op = "partition.delete"
            /\ \E k \in 1..Len(block_devices) :
                 /\ block_devices[k].type = "PHYSICAL"
                 /\ block_devices[k].id = NewCalls[j].target
                 /\ \E i \in 1..Len(partitions[k]) :
                      partitions[k][i] = NewCalls[j].arg

ClearStorageStep ==
  /\ LoopDeletedAll
  \* one kind after the other, in the call log as a whole
  /\ \A i, j \in 1..Len(calls') :
       i < j => DeletionRank(calls'[i]) <= DeletionRank(calls'[j])
  \* no physical block device is deleted
  /\ DevicesOf("PHYSICAL") = SelectSeq(block_devices', LAMBDA d : d.type = "PHYSICAL")
  /\ \A j \in 1..Len(NewCalls) :
       NewCalls[j].op = "block_device.delete" =>
         \A k \in 1..Len(block_devices) :
           block_devices[k].id = NewCalls[j].target =>
             block_devices[k].type # "PHYSICAL"
  \* what the helper returns
  /\ outcome' = "returned" =>
       (clear_storage_result' = "cleared" <=> calls' # <<>>)

C36_ClearStorage == [][ClearStorageStep]_vars

\* all three kinds deleted, the physical device still there
C36_Witness ==
  /\ outcome = "returned"
  /\ clear_storage_result = "cleared"
  /\ Issued("volume_group.delete")
  /\ Issued("block_device.delete")
  /\ Issued("partition.delete")
  /\ \A i \in CallIndices : calls[i].ok
  /\ Len(DevicesOf("PHYSICAL")) = 1
  /\ volume_groups = <<>>

\* nothing to delete: the helper returns the empty string
C36_NothingToClear ==
  /\ outcome = "returned"
  /\ calls = <<>>
  /\ clear_storage_result = ""

----------------------------------------------------------------------------
(* C37: every reconciliation invocation terminates, given that each       *)
(* remote call returns: for every starting status, target, force value    *)
(* and finite lists of block devices, interfaces and VLAN declarations    *)
(* the invocation eventually reaches exactly one final outcome, success   *)
(* or failure, and stays with it.                                         *)

FinalOutcomes == {"exit_json", "fail_json", "exception"}

Ended(o) == pc = "done" /\ outcome = o

C37_Terminates ==
  /\ \E o \in FinalOutcomes : <>[]Ended(o)
  /\ [](pc # "done" => outcome = "running")

\* a final outcome reached after the whole deployment sequence
C37_Witness ==
  /\ Ended("exit_json")
  /\ state = "deployed"
  /\ Len(vlans) = MaxVlans
  /\ IssuedOk("deploy")

----------------------------------------------------------------------------
(* C38: the two copies of the status translator, in maas_machine_state    *)
(* and in maas_machine_state_info, are equivalent: for every integer code *)
(* they return the same label.                                            *)

\* the label run_module got from its own copy is the one the other copy
\* gives for the same code
C38_CopiesAgree ==
  Fetched =>
    /\ maas_status = status_map_info(maas_status_id)
    /\ \A code \in TranslateCodes : status_map(code) = status_map_info(code)

\* the last labelled code, translated alike by both
C38_Witness ==
  /\ Fetched
  /\ maas_status = "FAILED_TESTING"
  /\ status_map_info(maas_status_id) = "FAILED_TESTING"
  /\ status_map_info(maas_status_id + 1) = "UNKNOWN"

----------------------------------------------------------------------------
(* C39: get_machine returns the machine data and its power data on both   *)
(* lookup paths: whenever a machine exists for the given system_id, or    *)
(* for the given hostname when no system_id is given, the invocation ends *)
(* in success with both data and power_data set, as maas_machine_info     *)
(* does for the same inputs.                                              *)

MachineExists ==
  IF Truthy(system_id)
  THEN \E i \in 1..Len(machines) : machines[i].system_id = system_id
  ELSE /\ Truthy(hostname)
       /\ \E i \in 1..Len(machines) : machines[i].hostname = hostname

\* the run is over, there was a machine to find and the service answered
\* every call
LookedUp ==
  /\ Done
  /\ MachineExists
  /\ \A i \in CallIndices : calls[i].ok

ReturnsBoth ==
  /\ outcome = "exit_json"
  /\ {"data", "power_data"} \subseteq DOMAIN result
  /\ result.data.system_id \in {system_id, maas_system_id}
  /\ result.power_data = result.data.power_parameters

C39_ReturnsDataAndPower ==
  (module_name = "get_machine" /\ LookedUp) => ReturnsBoth

\* maas_machine_info does, outside check mode
C39_InfoReturnsBoth ==
  (module_name = "maas_machine_info" /\ LookedUp /\ ~ check_mode) => ReturnsBoth

\* so does get_machine by system_id
C39_BySystemId ==
  (module_name = "get_machine" /\ LookedUp /\ ~ check_mode /\ Truthy(system_id))
    => ReturnsBoth

\* get_machine by hostname: the machine is fetched and the run ends in
\* NameError
C39_ByHostnameRaises ==
  /\ module_name = "get_machine"
  /\ ~ check_mode
  /\ ~ Truthy(system_id)
  /\ LookedUp
  /\ IssuedOk("machines.get")
  /\ maas_machine_data # Unbound
  /\ maas_machine_power = Unbound
  /\ outcome = "exception"

====
